---- MODULE Spec2Model ----
(***************************************************************************)
(* go-lager: serialisation of Go object graphs with shared and cyclic      *)
(* pointers.  The model follows the Encoder (src/unnamed/part_000), the    *)
(* Decoder (src/decoder.go, second snapshot, lines 403-813), the registry  *)
(* (src/lager.go) and the test harness (src/lager_test.go).                *)
(*                                                                         *)
(* Streams are sequences of bytes.  A w-bit machine word is the sequence   *)
(* of its w/8 base-256 digits, least significant digit first, so that all  *)
(* arithmetic is arithmetic modulo 2^w whatever the width.                 *)
(***************************************************************************)
EXTENDS Integers, Sequences, FiniteSets, TLC

(***************************************************************************)
(* Bounds of the model.                                                    *)
(***************************************************************************)
\* Write calls attempted on one Encoder (successful or failed).
MaxWrites == 2
\* Read calls made on one Decoder beyond the declared object count.
MaxExtraReads == 1
\* Sampled 32- and 64-bit integers lie within this distance of 0, -1, the
\* minimum and the maximum of their width.
SampleSpan == 2
\* Largest element count the decoder allocates for; a larger (or negative)
\* count only arises from a damaged body and exhausts memory.
MaxAlloc == 40

(***************************************************************************)
(* Machine words.                                                          *)
(***************************************************************************)
Byte == 0..255

\* The sequence <<f[i], ..., f[n]>> and the function that agrees with f on S,
\* computed once.
RECURSIVE Tup(_, _, _)
Tup(f, i, n) == IF i > n THEN <<>> ELSE <<f[i]>> \o Tup(f, i + 1, n)
RECURSIVE FnOver(_, _)
FnOver(f, S) ==
    IF S = {} THEN <<>>
    ELSE LET k == CHOOSE x \in S : TRUE IN (k :> f[k]) @@ FnOver(f, S \ {k})

\* The word of nb zero digits.
ZeroWord(nb) == Tup([i \in 1..nb |-> 0], 1, nb)

\* uintN(b) for a byte b: zero extension.
Widen(b, nb) == <<b>> \o ZeroWord(nb - 1)

\* byte(v): the least significant digit.
Lo(v) == v[1]

\* v >> 8
Shr8(v) == Tail(v) \o <<0>>

\* v << 8*k
ShlDigits(v, k) == ZeroWord(k) \o SubSeq(v, 1, Len(v) - k)

\* v << 1, the carry out of the top digit dropped
Shl1(v) ==
    Tup([i \in 1..Len(v) |-> ((v[i] * 2) % 256) + (IF i > 1 THEN v[i - 1] \div 128 ELSE 0)], 1, Len(v))

\* v >> 1 of an unsigned word
Shr1(v) ==
    Tup([i \in 1..Len(v) |-> (v[i] \div 2) + (IF i < Len(v) THEN (v[i + 1] % 2) * 128 ELSE 0)], 1, Len(v))

\* ^v
Not(v) == Tup([i \in 1..Len(v) |-> 255 - v[i]], 1, Len(v))

RECURSIVE OrByte(_, _, _)
OrByte(a, b, n) ==
    IF n = 0 THEN 0
    ELSE (IF a % 2 = 1 \/ b % 2 = 1 THEN 1 ELSE 0) + 2 * OrByte(a \div 2, b \div 2, n - 1)

\* a | b
OrW(a, b) ==
    Tup([i \in 1..Len(a) |->
            IF a[i] = 0 THEN b[i] ELSE IF b[i] = 0 THEN a[i] ELSE OrByte(a[i], b[i], 8)], 1, Len(a))

\* v < 0 for a signed word
IsNeg(v) == v[Len(v)] >= 128

\* u & 1 != 0
Odd(u) == Lo(u) % 2 # 0

RECURSIVE NatDigits(_, _)
NatDigits(n, nb) == IF nb = 0 THEN <<>> ELSE <<n % 256>> \o NatDigits(n \div 256, nb - 1)

\* The nb-byte two's complement word of the integer n.
ToWord(n, nb) == IF n >= 0 THEN NatDigits(n, nb) ELSE Not(NatDigits(-n - 1, nb))

\* An unsigned word below 2^24 as a number, and whether it is one.
IsSmall(v) == \A i \in 1..Len(v) : i > 3 => v[i] = 0
RECURSIVE DigitsNat(_, _)
DigitsNat(v, i) == IF i > Len(v) \/ i > 3 THEN 0 ELSE v[i] + 256 * DigitsNat(v, i + 1)
WordNat(v) == DigitsNat(v, 1)

\* A signed word of small magnitude as a number, and whether it is one.
IsSmallInt(v) == IF IsNeg(v) THEN IsSmall(Not(v)) ELSE IsSmall(v)
WordInt(v) == IF IsNeg(v) THEN -WordNat(Not(v)) - 1 ELSE WordNat(v)

(***************************************************************************)
(* Binary primitive codec: the bytes each writer appends.                  *)
(***************************************************************************)
RECURSIVE bytesLE(_, _)
\* WriteByte(byte(v)); v >>= 8; ... repeated nb times
bytesLE(v, nb) == IF nb = 0 THEN <<>> ELSE <<Lo(v)>> \o bytesLE(Shr8(v), nb - 1)

bytesUint8(v) == <<Lo(v)>>
bytesUint16(v) == bytesLE(v, 2)
bytesUint32(v) == bytesLE(v, 4)
bytesUint64(v) == bytesLE(v, 8)

\* A fold that leaves out the low bit of a negative value.
foldSignNoBit(v) == Shl1(IF IsNeg(v) THEN Not(v) ELSE v)
\* The sign-folded word of a signed word.
foldSign(v) == IF IsNeg(v) THEN OrW(Shl1(Not(v)), Widen(1, Len(v))) ELSE Shl1(v)

bytesInt8(v) == bytesUint8(foldSign(v))
bytesInt16(v) == bytesUint16(foldSign(v))
bytesInt32(v) == bytesUint32(foldSign(v))
bytesInt64(v) == bytesUint64(foldSign(v))

\* writeInt(v int), writeUint(v uint), writeUintptr: through the 64-bit writers
bytesInt(v) == bytesInt64(v)
bytesUint(v) == bytesUint64(v)
bytesUintptr(v) == bytesUint64(v)
bytesBool(b) == IF b THEN bytesUint8(Widen(1, 1)) ELSE bytesUint8(Widen(0, 1))
\* len(v) is an int
bytesString(s) == bytesInt(ToWord(Len(s), 8)) \o s

(***************************************************************************)
(* Binary primitive codec: reading.  ReadByte at the end of the input      *)
(* returns 0 and an error the decoder drops.                               *)
(***************************************************************************)
ByteAt(s, p) == IF p <= Len(s) THEN s[p] ELSE 0

RECURSIVE wordLE(_, _, _, _)
\* (uintN(u_nb) << 8(nb-1)) | ... | (uintN(u2) << 8) | uintN(u1)
wordLE(s, p, nb, i) ==
    IF i > nb THEN ZeroWord(nb)
    ELSE OrW(wordLE(s, p, nb, i + 1), ShlDigits(Widen(ByteAt(s, p + i - 1), nb), i - 1))

wordUint8(s, p) == wordLE(s, p, 1, 1)
wordUint16(s, p) == wordLE(s, p, 2, 1)
wordUint32(s, p) == wordLE(s, p, 4, 1)
wordUint64(s, p) == wordLE(s, p, 8, 1)

\* The signed word of a sign-folded word.
unfoldSign(u) == IF Odd(u) THEN Not(Shr1(u)) ELSE Shr1(u)

wordInt8(s, p) == unfoldSign(wordUint8(s, p))
wordInt16(s, p) == unfoldSign(wordUint16(s, p))
wordInt32(s, p) == unfoldSign(wordUint32(s, p))
wordInt64(s, p) == unfoldSign(wordUint64(s, p))

\* Dispatch on the width in bytes, as the harness below applies the codec.
bytesIntW(v) ==
    CASE Len(v) = 1 -> bytesInt8(v)
      [] Len(v) = 2 -> bytesInt16(v)
      [] Len(v) = 4 -> bytesInt32(v)
      [] OTHER -> bytesInt64(v)
wordIntW(s, nb) ==
    CASE nb = 1 -> wordInt8(s, 1)
      [] nb = 2 -> wordInt16(s, 1)
      [] nb = 4 -> wordInt32(s, 1)
      [] OTHER -> wordInt64(s, 1)

(***************************************************************************)
(* Types (reflect.Type) and values.                                        *)
(*   A type is a tuple: <<kind>> for a scalar, <<"Ptr", elem>>,             *)
(*   <<"Slice", elem>>, <<"Array", elem>>, <<"Map", key, elem>>,            *)
(*   <<"Struct", name>>, <<"Interface", name>>, <<"Chan">>, <<"Func">>.     *)
(*   NilType is reflect.TypeOf(nil).                                       *)
(*   A value of an integer or float kind is the word of its bits, a string *)
(*   is its bytes, a pointer is an address (0 is nil), a slice is the      *)
(*   sequence of its elements, a map is a function, a struct is the        *)
(*   sequence of its fields in declaration order, and a slot of interface  *)
(*   type holds a box [t |-> dynamic type, v |-> value] (NilBox when nil). *)
(***************************************************************************)
NilType == <<"Nil">>
NilBox == [t |-> NilType, v |-> 0]
Box(t, v) == [t |-> t, v |-> v]
Kind(t) == t[1]

\* uint8(t.Kind()): the values of reflect.Kind
KindNum(k) ==
    CASE k = "Bool" -> 1 [] k = "Int" -> 2 [] k = "Int8" -> 3 [] k = "Int16" -> 4
      [] k = "Int32" -> 5 [] k = "Int64" -> 6 [] k = "Uint" -> 7 [] k = "Uint8" -> 8
      [] k = "Uint16" -> 9 [] k = "Uint32" -> 10 [] k = "Uint64" -> 11
      [] k = "Uintptr" -> 12 [] k = "Float32" -> 13 [] k = "Float64" -> 14
      [] k = "Complex64" -> 15 [] k = "Complex128" -> 16 [] k = "Array" -> 17
      [] k = "Chan" -> 18 [] k = "Func" -> 19 [] k = "Interface" -> 20
      [] k = "Map" -> 21 [] k = "Ptr" -> 22 [] k = "Slice" -> 23
      [] k = "String" -> 24 [] k = "Struct" -> 25 [] OTHER -> 0

Kinds ==
    {"Bool", "Int", "Int8", "Int16", "Int32", "Int64", "Uint", "Uint8", "Uint16",
     "Uint32", "Uint64", "Uintptr", "Float32", "Float64", "Complex64", "Complex128",
     "Array", "Chan", "Func", "Interface", "Map", "Ptr", "Slice", "String", "Struct"}

\* reflect.Kind(b) for a byte read from the stream; "Invalid" when none.
KindOf(b) == IF \E k \in Kinds : KindNum(k) = b THEN CHOOSE k \in Kinds : KindNum(k) = b ELSE "Invalid"

isInterface(t) == Kind(t) = "Interface"
isPtr(t) == Kind(t) = "Ptr"

\* Names as bytes.
sA == <<65>>
sB == <<66>>
sC == <<67>>
sN == <<78>>
sP == <<80>>
sV == <<86>>
sCh == <<67, 104>>
sPtr == <<80, 116, 114>>
sStr == <<83, 116, 114>>
snum == <<110, 117, 109>>
sParent == <<80, 97, 114, 101, 110, 116>>
spayload == <<112, 97, 121, 108, 111, 97, 100>>
sfoo == <<102, 111, 111>>
sbar == <<98, 97, 114>>
sx == <<120>>

tInt == <<"Int">>
tInt8 == <<"Int8">>
tString == <<"String">>
tFloat32 == <<"Float32">>
tFloat64 == <<"Float64">>
tAny == <<"Interface", "any">>
tAnInterface == <<"Interface", "anInterface">>
tAStruct == <<"Struct", "aStruct">>
tHasPtr == <<"Struct", "hasPtr">>
tPayload == <<"Struct", "payload">>
tCyclic == <<"Struct", "Cyclic">>
tHasChan == <<"Struct", "hasChan">>
tWrap == <<"Struct", "wrap">>
tHasSlice == <<"Struct", "hasSlice">>
PtrTo(t) == <<"Ptr", t>>
SliceOf(t) == <<"Slice", t>>
MapOf(k, e) == <<"Map", k, e>>

NamedTypes == {tAny, tAnInterface, tAStruct, tHasPtr, tPayload, tCyclic, tHasChan, tWrap, tHasSlice}

\* t.String() of a struct or interface type
TypeString(t) ==
    CASE t = tAStruct -> <<109, 97, 105, 110, 46, 97, 83, 116, 114, 117, 99, 116>>
      [] t = tHasPtr -> <<109, 97, 105, 110, 46, 104, 97, 115, 80, 116, 114>>
      [] t = tPayload -> <<109, 97, 105, 110, 46, 112, 97, 121, 108, 111, 97, 100>>
      [] t = tCyclic -> <<109, 97, 105, 110, 46, 67, 121, 99, 108, 105, 99>>
      [] t = tHasChan -> <<109, 97, 105, 110, 46, 104, 97, 115, 67, 104, 97, 110>>
      [] t = tWrap -> <<109, 97, 105, 110, 46, 119, 114, 97, 112>>
      [] t = tHasSlice -> <<109, 97, 105, 110, 46, 104, 97, 115, 83, 108, 105, 99, 101>>
      [] t = tAny -> <<105, 110, 116, 101, 114, 102, 97, 99, 101, 32, 123, 125>>
      [] t = tAnInterface ->
            <<109, 97, 105, 110, 46, 97, 110, 73, 110, 116, 101, 114, 102, 97, 99, 101>>

Fld(n, t, p) == [name |-> n, type |-> t, private |-> p]

\* The struct types of the programs that use the package: their fields in
\* declaration order; private is len(f.PkgPath) > 0.
Fields(t) ==
    CASE t = tAStruct -> <<Fld(sA, tInt, FALSE), Fld(sB, tString, FALSE), Fld(sC, tFloat64, FALSE)>>
      [] t = tHasPtr -> <<Fld(sPtr, PtrTo(tHasPtr), FALSE)>>
      [] t = tPayload -> <<Fld(sStr, tString, FALSE), Fld(snum, tInt, TRUE)>>
      [] t = tCyclic -> <<Fld(sParent, PtrTo(tCyclic), FALSE), Fld(spayload, tPayload, TRUE)>>
      [] t = tHasChan -> <<Fld(sN, tInt8, FALSE), Fld(sCh, <<"Chan">>, FALSE)>>
      [] t = tWrap -> <<Fld(sV, tAny, FALSE)>>
      [] t = tHasSlice -> <<Fld(sP, PtrTo(SliceOf(tAny)), FALSE)>>

\* A test that takes every field for an exported one.
privateFieldNone(f) == FALSE
privateField(f) == f.private

RECURSIVE countPublic(_, _)
countPublic(fs, i) ==
    IF i > Len(fs) THEN 0
    ELSE (IF privateField(fs[i]) THEN 0 ELSE 1) + countPublic(fs, i + 1)

numPublicFields(t) == countPublic(Fields(t), 1)

\* Finite maps.
Put(f, k, v) == (k :> v) @@ f
EmptyMap == <<>>

\* An arbitrary but fixed enumeration of a finite set, and its k-th
\* rearrangement: the order in which a range over a Go map visits it.
SetToSeq(S) ==
    IF S = {} THEN <<>>
    ELSE CHOOSE q \in [1..Cardinality(S) -> S] : \A i, j \in 1..Cardinality(S) : q[i] = q[j] => i = j
Without(q, i) == SubSeq(q, 1, i - 1) \o SubSeq(q, i + 1, Len(q))
RECURSIVE nthPerm(_, _)
nthPerm(q, k) ==
    IF Len(q) = 0 THEN <<>>
    ELSE LET i == (k % Len(q)) + 1
         IN <<q[i]>> \o nthPerm(Without(q, i), k \div Len(q))
RangeOrder(S, k) == nthPerm(SetToSeq(S), k)

(***************************************************************************)
(* The memory of the encoding program: the variables that pointers passed  *)
(* to Write refer to, each with its type and its value.  The encoder only  *)
(* reads it.                                                               *)
(***************************************************************************)
Addr(i) == 4096 + 16 * i

\* float64(3.14) and float32(3.4), as the words of their bits
f314 == <<31, 133, 235, 81, 184, 30, 9, 64>>
f34 == <<154, 153, 89, 64>>

\* aStruct{216, "foo", 3.14}
aValue == <<ToWord(216, 8), sfoo, f314>>

Heap ==
    (Addr(1) :> Box(tAStruct, aValue))
    \* a := hasPtr{&b}; b := hasPtr{&a}
    @@ (Addr(2) :> Box(tHasPtr, <<Addr(3)>>))
    @@ (Addr(3) :> Box(tHasPtr, <<Addr(2)>>))
    \* foo.Ptr = foo
    @@ (Addr(4) :> Box(tHasPtr, <<Addr(4)>>))
    \* a cycle of three
    @@ (Addr(5) :> Box(tHasPtr, <<Addr(6)>>))
    @@ (Addr(6) :> Box(tHasPtr, <<Addr(7)>>))
    @@ (Addr(7) :> Box(tHasPtr, <<Addr(5)>>))
    \* p := []interface{}{&value}
    @@ (Addr(8) :> Box(SliceOf(tAny), <<Box(PtrTo(tAStruct), Addr(1))>>))
    \* m := [][]*aStruct{[]*aStruct{&s}}
    @@ (Addr(9) :> Box(SliceOf(SliceOf(PtrTo(tAStruct))), << <<Addr(1)>> >>))
    \* a := &Cyclic{b, payload{"foo", 3}}; b := &Cyclic{a, payload{"bar", 5}}
    @@ (Addr(10) :> Box(tCyclic, <<Addr(11), <<sfoo, ToWord(3, 8)>> >>))
    @@ (Addr(11) :> Box(tCyclic, <<Addr(10), <<sbar, ToWord(5, 8)>> >>))
    \* a struct with a channel in it
    @@ (Addr(12) :> Box(tHasChan, <<ToWord(1, 1), 0>>))
    \* byKey := map[int]*aStruct{3: &value}
    @@ (Addr(13) :> Box(MapOf(tInt, PtrTo(tAStruct)), (ToWord(3, 8) :> Addr(1))))
    \* q := []interface{}{nil, &value}
    @@ (Addr(14) :> Box(SliceOf(tAny), <<NilBox, Box(PtrTo(tAStruct), Addr(1))>>))
    \* last := hasPtr{nil}
    @@ (Addr(15) :> Box(tHasPtr, <<0>>))

(***************************************************************************)
(* Encoder.  An encoder in flight is a record                              *)
(*   buf: the current buffer, nextId, typeIds, ptrMap: the Encoder fields; *)
(*   reg: the package's typeMap, which registerType writes;                *)
(*   ord: the order in which this call's ranges over Go maps run;          *)
(*   ok:  FALSE once the call has panicked (nothing runs after that).      *)
(***************************************************************************)
Panic(e) == [e EXCEPT !.ok = FALSE]
emit(e, bs) == IF e.ok THEN [e EXCEPT !.buf = @ \o bs] ELSE e

writeBool(e, v) == emit(e, bytesBool(v))
writeInt(e, v) == emit(e, bytesInt(v))
writeInt8(e, v) == emit(e, bytesInt8(v))
writeInt16(e, v) == emit(e, bytesInt16(v))
writeInt32(e, v) == emit(e, bytesInt32(v))
writeInt64(e, v) == emit(e, bytesInt64(v))
writeUint(e, v) == emit(e, bytesUint(v))
writeUint8(e, v) == emit(e, bytesUint8(v))
writeUint16(e, v) == emit(e, bytesUint16(v))
writeUint32(e, v) == emit(e, bytesUint32(v))
writeUint64(e, v) == emit(e, bytesUint64(v))
writeUintptr(e, v) == emit(e, bytesUintptr(v))
\* math.Float32bits(v) is the word that stands for v
writeFloat32(e, v) == writeUint32(e, v)
writeFloat64(e, v) == writeUint64(e, v)
\* a complex value is the pair of its real and imaginary parts
writeComplex64(e, v) == writeUint32(writeUint32(e, v[1]), v[2])
writeComplex128(e, v) == writeUint64(writeUint64(e, v[1]), v[2])
writeString(e, v) == emit(e, bytesString(v))

\* lager.RegisterType: typeMap[typ.String()] = typ
RegisterType(reg, t) == Put(reg, TypeString(t), t)

\* A registration that gives the type the next id whether it has one or not.
registerTypeAnew(e, t) ==
    [e EXCEPT !.reg = RegisterType(@, t), !.typeIds = Put(@, t, e.nextId), !.nextId = @ + 1]
registerType(e, t) ==
    LET Id(e1) ==
            IF t \in DOMAIN e1.typeIds THEN e1
            ELSE [e1 EXCEPT !.typeIds = Put(@, t, e1.nextId), !.nextId = @ + 1]
    IN  Id([e EXCEPT !.reg = RegisterType(@, t)])

\* An encoder that writes no type tag.
writeTypeNone(e, t) == e
RECURSIVE writeType(_, _)
writeType(e, t) ==
    IF ~e.ok THEN e
    ELSE IF t = NilType THEN Panic(e)
    ELSE LET Id(e2) == writeUint(e2, ToWord(e2.typeIds[t], 8))
             Rest(e1) ==
                CASE Kind(t) = "Map" -> writeType(writeType(e1, t[2]), t[3])
                  [] Kind(t) \in {"Ptr", "Slice"} -> writeType(e1, t[2])
                  [] Kind(t) \in {"Struct", "Interface"} -> Id(registerType(e1, t))
                  [] OTHER -> e1
         IN  Rest(writeUint8(e, Widen(KindNum(Kind(t)), 1)))

\* x.Interface(): the value of a slot of static type st as an interface{}
Interface(st, v) == IF isInterface(st) THEN v ELSE Box(st, v)

\* What a pointer of element type t finds at the address of the object b:
\* b itself, or the first field of b, which lies at the same address
RECURSIVE Deref(_, _)
Deref(t, b) ==
    IF b.t = t \/ Kind(b.t) # "Struct" THEN b.v
    ELSE Deref(t, Box(Fields(b.t)[1].type, b.v[1]))

\* w.Elem().Interface() of a non-nil pointer w
ElemInterface(w) == Interface(w.t[2], Deref(w.t[2], Heap[w.v]))

RECURSIVE write(_, _, _), writeElems(_, _, _, _), writeEntries(_, _, _, _), writeFields(_, _, _)

writeSlice(e, x) ==
    writeElems(writeInt(e, ToWord(Len(x.v), 8)), x.v, x.t[2], 1)

writeElems(e, vs, et, i) ==
    IF ~e.ok \/ i > Len(vs) THEN e
    ELSE writeElems(write(e, Interface(et, vs[i]), isInterface(et)), vs, et, i + 1)

writeMap(e, x) ==
    writeEntries(writeInt(e, ToWord(Cardinality(DOMAIN x.v), 8)), x, RangeOrder(DOMAIN x.v, e.ord), 1)

writeEntries(e, x, keys, i) ==
    IF ~e.ok \/ i > Len(keys) THEN e
    ELSE LET keyIsInterface == Kind(x.t[2]) = "Interface"
             valIsInterface == Kind(x.t[3]) = "Interface"
             Val(e1) == write(e1, Interface(x.t[3], x.v[keys[i]]), valIsInterface)
         IN  writeEntries(Val(write(e, Interface(x.t[2], keys[i]), keyIsInterface)), x, keys, i + 1)

\* A store that enters nothing in the pool.
storePtrSkip(e, w, ptr) == e
storePtr(e, w, ptr) ==
    IF ptr \in DOMAIN e.ptrMap THEN e
    \* w.Elem() of a nil pointer is the zero Value, whose Interface() panics
    ELSE IF ptr = 0 THEN Panic(e)
    ELSE LET \* e.buf = tmp is not reached when the walk panics
             Back(e2) == IF e2.ok THEN [e2 EXCEPT !.buf = e.buf] ELSE e2
             Walk(e1) == Back(write(e1, e1.ptrMap[ptr], FALSE))
         IN  Walk([e EXCEPT !.ptrMap = Put(@, ptr, ElemInterface(w)), !.buf = <<>>])

writePtr(e, x) == writeUintptr(storePtr(e, x, x.v), ToWord(x.v, 8))

writeStruct(e, x) ==
    writeFields(writeInt(registerType(e, x.t), ToWord(numPublicFields(x.t), 8)), x, 1)

writeFields(e, x, i) ==
    IF ~e.ok \/ i > Len(Fields(x.t)) THEN e
    ELSE LET f == Fields(x.t)[i]
         IN  IF privateField(f) THEN writeFields(e, x, i + 1)
             ELSE writeFields(write(writeString(e, f.name), Interface(f.type, x.v[i]), isInterface(f.type)),
                              x, i + 1)

write(e, x, sendType) ==
    IF ~e.ok THEN e
    \* reflect.TypeOf(nil) is nil, and t.Kind() on it panics
    ELSE IF x.t = NilType THEN Panic(e)
    ELSE LET k == Kind(x.t)
             Body(e1) ==
             CASE k = "Bool" -> writeBool(e1, x.v)
               [] k = "Int" -> writeInt(e1, x.v)
               [] k = "Int8" -> writeInt8(e1, x.v)
               [] k = "Int16" -> writeInt16(e1, x.v)
               [] k = "Int32" -> writeInt32(e1, x.v)
               [] k = "Int64" -> writeInt64(e1, x.v)
               [] k = "Uint" -> writeUint(e1, x.v)
               [] k = "Uint8" -> writeUint8(e1, x.v)
               [] k = "Uint16" -> writeUint16(e1, x.v)
               [] k = "Uint32" -> writeUint32(e1, x.v)
               [] k = "Uint64" -> writeUint64(e1, x.v)
               [] k = "Uintptr" -> writeUintptr(e1, x.v)
               [] k = "Float32" -> writeFloat32(e1, x.v)
               [] k = "Float64" -> writeFloat64(e1, x.v)
               [] k = "Complex64" -> writeComplex64(e1, x.v)
               [] k = "Complex128" -> writeComplex128(e1, x.v)
               [] k \in {"Array", "Chan", "Func", "Interface"} -> Panic(e1)
               [] k = "Map" -> writeMap(e1, x)
               [] k = "Ptr" -> writePtr(e1, x)
               [] k = "Slice" -> writeSlice(e1, x)
               [] k = "String" -> writeString(e1, x.v)
               [] k = "Struct" -> writeStruct(e1, x)
               [] OTHER -> Panic(e1)
         IN  Body(IF sendType THEN writeType(e, x.t) ELSE e)

(***************************************************************************)
(* Decoder.  A decoder in flight is a record                               *)
(*   s, pos: the reader (the stream and the next byte to read);            *)
(*   objects, typeMap, ptrMap, postHeader: the Decoder fields;             *)
(*   mem: the storage the decoder allocated, by address;                   *)
(*   ok: FALSE once the call has panicked.                                 *)
(* A reader returns [d |-> the decoder after it, v |-> what it read].      *)
(***************************************************************************)
Ret(d, v) == [d |-> d, v |-> v]
DPanic(d) == [d EXCEPT !.ok = FALSE]
Skip(d, n) == [d EXCEPT !.pos = @ + n]

readUint8(d) == Ret(Skip(d, 1), wordUint8(d.s, d.pos))
readUint16(d) == Ret(Skip(d, 2), wordUint16(d.s, d.pos))
readUint32(d) == Ret(Skip(d, 4), wordUint32(d.s, d.pos))
readUint64(d) == Ret(Skip(d, 8), wordUint64(d.s, d.pos))
readInt8(d) == Ret(Skip(d, 1), wordInt8(d.s, d.pos))
readInt16(d) == Ret(Skip(d, 2), wordInt16(d.s, d.pos))
readInt32(d) == Ret(Skip(d, 4), wordInt32(d.s, d.pos))
readInt64(d) == Ret(Skip(d, 8), wordInt64(d.s, d.pos))
readInt(d) == readInt64(d)
readUint(d) == readUint64(d)
readUintptr(d) == readUint64(d)
readBool(d) == LET Got(r) == Ret(r.d, Lo(r.v) # 0) IN Got(readUint8(d))
readFloat32(d) == readUint32(d)
readFloat64(d) == readUint64(d)
readComplex64(d) ==
    LET Both(r, i) == Ret(i.d, <<r.v, i.v>>)
        Imag(r) == Both(r, readUint32(r.d))
    IN  Imag(readUint32(d))
readComplex128(d) ==
    LET Both(r, i) == Ret(i.d, <<r.v, i.v>>)
        Imag(r) == Both(r, readUint64(r.d))
    IN  Imag(readUint64(d))

\* A count make() can allocate for.
CanAlloc(n) == IsSmallInt(n) /\ WordInt(n) >= 0 /\ WordInt(n) <= MaxAlloc
\* The number of times for i := 0; i < n; i++ runs; a count past MaxAlloc
\* does not end within the memory or the time of any run.
LoopEnds(n) == IsNeg(n) \/ CanAlloc(n)
LoopCount(n) == IF IsNeg(n) THEN 0 ELSE WordInt(n)

readString(d) ==
    LET Bytes(n) ==
            IF ~CanAlloc(n.v) THEN Ret(DPanic(n.d), <<>>)
            ELSE Ret(Skip(n.d, WordInt(n.v)),
                     Tup([i \in 1..WordInt(n.v) |-> ByteAt(d.s, n.d.pos + i - 1)], 1, WordInt(n.v)))
    IN  Bytes(readInt(d))

ScalarKinds ==
    {"Bool", "Int", "Int8", "Int16", "Int32", "Int64", "Uint", "Uint8", "Uint16", "Uint32",
     "Uint64", "Uintptr", "Float32", "Float64", "Complex64", "Complex128", "String"}

RECURSIVE readType(_)
readType(d) ==
    IF ~d.ok THEN Ret(d, NilType)
    ELSE LET \* reflect.MapOf panics for a key type that cannot be compared
             MapType(key, elem) ==
                IF elem.d.ok /\ Kind(key.v) \in {"Map", "Slice", "Func"}
                THEN Ret(DPanic(elem.d), NilType)
                ELSE Ret(elem.d, MapOf(key.v, elem.v))
             MapElem(key) == MapType(key, readType(key.d))
             PtrType(elem) == Ret(elem.d, PtrTo(elem.v))
             SliceType(elem) == Ret(elem.d, SliceOf(elem.v))
             Named(id) ==
                IF IsSmall(id.v) /\ WordNat(id.v) \in DOMAIN d.typeMap
                THEN Ret(id.d, d.typeMap[WordNat(id.v)])
                ELSE Ret(DPanic(id.d), NilType)
             OfKind(b, kind) ==
                CASE kind \in ScalarKinds -> Ret(b.d, <<kind>>)
                  [] kind \in {"Array", "Chan", "Func"} -> Ret(DPanic(b.d), NilType)
                  [] kind = "Map" -> MapElem(readType(b.d))
                  [] kind = "Ptr" -> PtrType(readType(b.d))
                  [] kind = "Slice" -> SliceType(readType(b.d))
                  [] kind \in {"Struct", "Interface"} -> Named(readUint(b.d))
                  [] OTHER -> Ret(DPanic(b.d), NilType)
             FromByte(b) == OfKind(b, KindOf(Lo(b.v)))
         IN  FromByte(readUint8(d))

\* reflect.New(t).Elem(): the zero value of a type
RECURSIVE Zero(_), ZeroFields(_, _)
Zero(t) ==
    CASE Kind(t) \in {"Int", "Int64", "Uint", "Uint64", "Uintptr", "Float64"} -> ZeroWord(8)
      [] Kind(t) \in {"Int32", "Uint32", "Float32"} -> ZeroWord(4)
      [] Kind(t) \in {"Int16", "Uint16"} -> ZeroWord(2)
      [] Kind(t) \in {"Int8", "Uint8"} -> ZeroWord(1)
      [] Kind(t) = "Complex64" -> <<ZeroWord(4), ZeroWord(4)>>
      [] Kind(t) = "Complex128" -> <<ZeroWord(8), ZeroWord(8)>>
      [] Kind(t) = "Bool" -> FALSE
      [] Kind(t) \in {"String", "Slice", "Map"} -> <<>>
      [] Kind(t) = "Interface" -> NilBox
      [] Kind(t) = "Struct" -> ZeroFields(Fields(t), 1)
      [] OTHER -> 0
ZeroFields(fs, i) == IF i > Len(fs) THEN <<>> ELSE <<Zero(fs[i].type)>> \o ZeroFields(fs, i + 1)

\* What a slot of static type st holds once the interface{} x is stored in it.
Slot(st, x) == IF isInterface(st) THEN x ELSE x.v

\* t.FieldByName(name): the index of the field, 0 when there is none
FieldByName(t, name) ==
    IF \E i \in 1..Len(Fields(t)) : Fields(t)[i].name = name
    THEN CHOOSE i \in 1..Len(Fields(t)) : Fields(t)[i].name = name
    ELSE 0

RECURSIVE read(_, _), readElems(_, _, _, _), readEntries(_, _, _, _), readFields(_, _, _, _)

\* A reader that takes the count and leaves the entries.
readMapNone(d, t) == Ret(readInt(d).d, EmptyMap)
readMap(d, t) ==
    LET Entries(n) ==
            IF ~LoopEnds(n.v) THEN Ret(DPanic(n.d), <<>>)
            ELSE readEntries(n.d, t, LoopCount(n.v), EmptyMap)
    IN  Entries(readInt(d))

readEntries(d, t, n, acc) ==
    IF ~d.ok \/ n = 0 THEN Ret(d, acc)
    ELSE LET Entry(key, val) ==
                IF ~val.d.ok THEN Ret(val.d, acc)
                ELSE readEntries(val.d, t, n - 1, Put(acc, Slot(t[2], key.v), Slot(t[3], val.v)))
             Val(key) == Entry(key, read(key.d, t[3]))
         IN  Val(read(d, t[2]))

readPtr(d, t) ==
    LET At(addr, known) ==
            IF d.postHeader
            THEN IF known THEN Ret(addr.d, d.ptrMap[WordNat(addr.v)]) ELSE Ret(DPanic(addr.d), 0)
            \* before the header is done the pointer keeps the address it was written with
            ELSE Ret(addr.d, IF IsSmall(addr.v) THEN WordNat(addr.v) ELSE -1)
        Key(addr) == At(addr, IsSmall(addr.v) /\ WordNat(addr.v) \in DOMAIN d.ptrMap)
    IN  Key(readUintptr(d))

readSlice(d, t) ==
    LET Elems(n) ==
            IF ~CanAlloc(n.v) THEN Ret(DPanic(n.d), <<>>)
            ELSE readElems(n.d, t[2], WordInt(n.v), <<>>)
    IN  Elems(readInt(d))

readElems(d, inner, n, acc) ==
    IF ~d.ok \/ n = 0 THEN Ret(d, acc)
    ELSE LET Elem(elem) ==
                IF ~elem.d.ok THEN Ret(elem.d, acc)
                ELSE readElems(elem.d, inner, n - 1, Append(acc, Slot(inner, elem.v)))
         IN  Elem(read(d, inner))

readStruct(d, t) ==
    LET FieldsOf(n) ==
            IF ~LoopEnds(n.v) THEN Ret(DPanic(n.d), <<>>)
            ELSE readFields(n.d, t, LoopCount(n.v), Zero(t))
    IN  FieldsOf(readInt(d))

readFields(d, t, n, acc) ==
    IF ~d.ok \/ n = 0 THEN Ret(d, acc)
    ELSE LET Set(i, value) ==
                IF ~value.d.ok THEN Ret(value.d, acc)
                \* Set panics on a field that is not exported
                ELSE IF privateField(Fields(t)[i]) THEN Ret(DPanic(value.d), acc)
                ELSE readFields(value.d, t, n - 1,
                                [acc EXCEPT ![i] = Slot(Fields(t)[i].type, value.v)])
             Field(name, i) ==
                IF ~name.d.ok THEN Ret(name.d, acc)
                ELSE IF i = 0 THEN Ret(DPanic(name.d), acc)
                ELSE Set(i, read(name.d, Fields(t)[i].type))
             Named(name) == Field(name, FieldByName(t, name.v))
         IN  Named(readString(d))

\* d.read(t): the value read, as an interface{}
read(d, t) ==
    IF ~d.ok THEN Ret(d, NilBox)
    ELSE LET Val(tt, r) == Ret(r.d, IF r.d.ok THEN Box(tt.v, r.v) ELSE NilBox)
             Dyn(t2) == read(t2.d, t2.v)
             OfKind(tt, k) ==
                IF ~tt.d.ok THEN Ret(tt.d, NilBox)
                ELSE CASE k = "Bool" -> Val(tt, readBool(tt.d))
                       [] k = "Int" -> Val(tt, readInt(tt.d))
                       [] k = "Int8" -> Val(tt, readInt8(tt.d))
                       [] k = "Int16" -> Val(tt, readInt16(tt.d))
                       [] k = "Int32" -> Val(tt, readInt32(tt.d))
                       [] k = "Int64" -> Val(tt, readInt64(tt.d))
                       [] k = "Uint" -> Val(tt, readUint(tt.d))
                       [] k = "Uint8" -> Val(tt, readUint8(tt.d))
                       [] k = "Uint16" -> Val(tt, readUint16(tt.d))
                       [] k = "Uint32" -> Val(tt, readUint32(tt.d))
                       [] k = "Uint64" -> Val(tt, readUint64(tt.d))
                       [] k = "Uintptr" -> Val(tt, readUintptr(tt.d))
                       [] k = "Float32" -> Val(tt, readFloat32(tt.d))
                       [] k = "Float64" -> Val(tt, readFloat64(tt.d))
                       [] k = "Complex64" -> Val(tt, readComplex64(tt.d))
                       [] k = "Complex128" -> Val(tt, readComplex128(tt.d))
                       [] k \in {"Array", "Chan", "Func"} -> Ret(DPanic(tt.d), NilBox)
                       [] k = "Interface" -> Dyn(readType(tt.d))
                       [] k = "Map" -> Val(tt, readMap(tt.d, tt.v))
                       [] k = "Ptr" -> Val(tt, readPtr(tt.d, tt.v))
                       [] k = "Slice" -> Val(tt, readSlice(tt.d, tt.v))
                       [] k = "String" -> Val(tt, readString(tt.d))
                       [] k = "Struct" -> Val(tt, readStruct(tt.d, tt.v))
                       [] OTHER -> Ret(DPanic(tt.d), NilBox)
             Typed(tt) == OfKind(tt, Kind(tt.v))
         IN  Typed(IF isInterface(t) THEN readType(d) ELSE Ret(d, t))

(***************************************************************************)
(* The patch pass.  A patcher returns [ok, v]: the value after patching,   *)
(* and ok = FALSE when it panicked.  A struct field can be set when the    *)
(* struct can, a slice element always, a map key or value never: Set on    *)
(* what MapKeys and MapIndex return panics.  What is patched through a     *)
(* slice inside a map value is seen by the map, which shares its array.    *)
(***************************************************************************)
Patched(ok, v) == [ok |-> ok, v |-> v]

\* A patch that leaves the pointer as it was read.
patchPtrKeep(pm, v, t, settable) == Patched(TRUE, v)
patchPtr(pm, v, t, settable) ==
    IF isPtr(t)
    THEN IF settable THEN Patched(TRUE, IF v \in DOMAIN pm THEN pm[v] ELSE 0)
         ELSE Patched(FALSE, v)
    ELSE Patched(TRUE, v)

RECURSIVE patch(_, _, _, _)

patchSlice(pm, v, t) ==
    LET Done(ps) ==
            Patched(\A i \in 1..Len(v) : ps[i].ok, Tup([i \in 1..Len(v) |-> ps[i].v], 1, Len(v)))
    IN  Done(Tup([i \in 1..Len(v) |-> patch(pm, v[i], t[2], TRUE)], 1, Len(v)))

patchMap(pm, v, t) ==
    LET Done(pk, pv) ==
            Patched(\A k \in DOMAIN v : pk[k].ok /\ pv[k].ok,
                    FnOver([k \in DOMAIN v |-> pv[k].v], DOMAIN v))
    IN  Done(FnOver([k \in DOMAIN v |-> patch(pm, k, t[2], FALSE)], DOMAIN v),
             FnOver([k \in DOMAIN v |-> patch(pm, v[k], t[3], FALSE)], DOMAIN v))

patchStruct(pm, v, t, settable) ==
    LET Done(fs, ps) ==
            Patched(\A i \in 1..Len(fs) : ps[i].ok, Tup([i \in 1..Len(fs) |-> ps[i].v], 1, Len(fs)))
        Each(fs) ==
            Done(fs, Tup([i \in 1..Len(fs) |->
                            IF ~privateField(fs[i]) THEN patch(pm, v[i], fs[i].type, settable)
                            ELSE Patched(TRUE, v[i])], 1, Len(fs)))
    IN  Each(Fields(t))

patch(pm, v, t, settable) ==
    CASE Kind(t) = "Slice" -> patchSlice(pm, v, t)
      [] Kind(t) = "Map" -> patchMap(pm, v, t)
      [] Kind(t) = "Struct" -> patchStruct(pm, v, t, settable)
      [] Kind(t) = "Ptr" -> patchPtr(pm, v, t, settable)
      [] OTHER -> Patched(TRUE, v)

(***************************************************************************)
(* The calls of the package, as functions of the state they run on.        *)
(***************************************************************************)
\* Encoder.Write: the count moves only when the walk returns
EncoderWrite(e, value) ==
    LET Count(e1) == IF e1.ok THEN [e1 EXCEPT !.objects = @ + 1] ELSE e1
    IN  Count(write(e, value, TRUE))

RECURSIVE finishTypes(_, _, _), finishPtrs(_, _, _)
\* for t, id := range e.typeIds
finishTypes(e, ts, i) ==
    IF i > Len(ts) THEN e
    ELSE finishTypes(writeUint(writeString(e, TypeString(ts[i])), ToWord(e.typeIds[ts[i]], 8)), ts, i + 1)
\* for ptr, v := range e.ptrMap
finishPtrs(e, ptrs, i) ==
    IF ~e.ok \/ i > Len(ptrs) THEN e
    ELSE finishPtrs(write(writeUintptr(e, ToWord(ptrs[i], 8)), e.ptrMap[ptrs[i]], TRUE), ptrs, i + 1)

\* Encoder.Finish up to the two WriteTo calls: buf is the header.
\* oT and oP are the orders of the two ranges.
FinishHeader(e, oT, oP) ==
    LET Pool(e4) == finishPtrs(e4, RangeOrder(DOMAIN e4.ptrMap, oP), 1)
        PoolCount(e3) == Pool(writeInt(e3, ToWord(Cardinality(DOMAIN e3.ptrMap), 8)))
        Types(e2) == PoolCount(finishTypes(e2, RangeOrder(DOMAIN e2.typeIds, oT), 1))
        TypeCount(e1) == Types(writeInt(e1, ToWord(Cardinality(DOMAIN e1.typeIds), 8)))
    IN  TypeCount(writeInt([e EXCEPT !.buf = <<>>], ToWord(e.objects, 8)))

NewAddr(i) == 8192 + 16 * i

RECURSIVE headerTypes(_, _, _), headerPtrs(_, _, _), patchAll(_, _)
\* the type table loop of readHeader; err is the error it returns
headerTypes(d, reg, n) ==
    IF ~d.ok \/ n = 0 THEN [d |-> d, err |-> FALSE]
    ELSE LET Entry(name, id) ==
                IF ~id.d.ok THEN [d |-> id.d, err |-> FALSE]
                ELSE IF name.v \notin DOMAIN reg THEN [d |-> id.d, err |-> TRUE]
                ELSE headerTypes([id.d EXCEPT !.typeMap = Put(@, IF IsSmall(id.v) THEN WordNat(id.v) ELSE -1,
                                                              reg[name.v])],
                                 reg, n - 1)
             Id(name) == Entry(name, readUint(name.d))
         IN  Id(readString(d))

\* the pointer pool loop of readHeader; i counts the entries read
headerPtrs(d, n, i) ==
    IF ~d.ok \/ i > n THEN d
    ELSE LET Store(ptr, t, x) ==
                IF ~x.d.ok THEN x.d
                ELSE headerPtrs([x.d EXCEPT !.mem = Put(@, NewAddr(i), Box(t.v, Slot(t.v, x.v))),
                                            !.ptrMap = Put(@, IF IsSmall(ptr.v) THEN WordNat(ptr.v) ELSE -1,
                                                           NewAddr(i))],
                                n, i + 1)
             Value(ptr, t) == Store(ptr, t, read(t.d, t.v))
             Type(ptr) == Value(ptr, readType(ptr.d))
         IN  Type(readUintptr(d))

\* for _, obj := range objs { d.patch(obj) }
patchAll(d, i) ==
    IF ~d.ok \/ NewAddr(i) \notin DOMAIN d.mem THEN d
    ELSE LET Set(obj, p) ==
                IF ~p.ok THEN DPanic(d)
                ELSE patchAll([d EXCEPT !.mem[NewAddr(i)] = Box(obj.t, p.v)], i + 1)
             Obj(obj) == Set(obj, patch(d.ptrMap, obj.v, obj.t, TRUE))
         IN  Obj(d.mem[NewAddr(i)])

readHeader(d, reg) ==
    LET Pool(tys, m) ==
            IF tys.err \/ ~tys.d.ok THEN tys
            ELSE IF ~CanAlloc(m.v) THEN [d |-> DPanic(m.d), err |-> FALSE]
            ELSE [d |-> patchAll(headerPtrs(m.d, WordInt(m.v), 1), 1), err |-> FALSE]
        PoolCount(tys) == Pool(tys, readInt(tys.d))
        Table(n, d1) ==
            IF ~LoopEnds(n.v) THEN [d |-> DPanic(d1), err |-> FALSE]
            ELSE PoolCount(headerTypes(d1, reg, LoopCount(n.v)))
        Types(objects, n) ==
            Table(n, [n.d EXCEPT !.objects = IF IsSmallInt(objects.v) THEN WordInt(objects.v) ELSE -1])
        Objects(objects) == Types(objects, readInt(objects.d))
    IN  Objects(readInt(d))

\* Decoder.Read: kind is "value", "err" (Out of objects) or "panic"
DecoderRead(d) ==
    IF d.objects = 0 THEN [d |-> d, kind |-> "err", x |-> NilBox]
    ELSE LET Got(r) == [d |-> r.d, kind |-> IF r.d.ok THEN "value" ELSE "panic", x |-> r.v]
             Value(t) == Got(read(t.d, t.v))
         IN  Value(readType([d EXCEPT !.objects = @ - 1]))

(***************************************************************************)
(* The values the programs pass to Write (lager_test.go, main.go), and     *)
(* three that the encoder refuses, a pointer to a map of pointers, a map   *)
(* whose keys, values and struct fields are interfaces, a struct with a    *)
(* pointer to a slice of interfaces, an empty slice of channels, a pointer  *)
(* to a struct next to a pointer to its first field, a pointer to a slice  *)
(* whose walk stops before its pointer, and four that hold a nil pointer.   *)
(***************************************************************************)
W8(n) == ToWord(n, 8)
Roots ==
    << Box(tInt8, ToWord(-11, 1)),                                        \* 1: int8(-11)
       Box(tAStruct, aValue),                                             \* 2: aStruct{216, "foo", 3.14}
       Box(tPayload, <<sfoo, W8(3)>>),                                    \* 3: payload{"foo", 3}
       Box(MapOf(tInt, tString), (W8(3) :> sfoo) @@ (W8(5) :> sbar)),     \* 4: map[int]string
       Box(MapOf(tInt, MapOf(tString, tFloat32)),                         \* 5: map[int]map[string]float32
           (W8(42) :> (sx :> f34)) @@ (W8(-7) :> ((sx :> f34) @@ (sfoo :> f34)))),
       Box(SliceOf(PtrTo(tAStruct)), <<Addr(1), Addr(1)>>),               \* 6: []*aStruct{&value, &value}
       Box(SliceOf(PtrTo(tHasPtr)), <<Addr(2), Addr(3)>>),                \* 7: []*hasPtr{&a, &b}
       Box(PtrTo(tHasPtr), Addr(4)),                                      \* 8: foo, with foo.Ptr = foo
       Box(PtrTo(tHasPtr), Addr(5)),                                      \* 9: a cycle of three
       Box(SliceOf(tAny), <<Box(PtrTo(tAStruct), Addr(1))>>),             \* 10: []interface{}{&value}
       Box(PtrTo(SliceOf(tAny)), Addr(8)),                                \* 11: &p
       Box(PtrTo(SliceOf(SliceOf(PtrTo(tAStruct)))), Addr(9)),            \* 12: &m
       Box(PtrTo(tCyclic), Addr(10)),                                     \* 13: a, of main.go
       Box(<<"Array", tInt8>>, <<ToWord(0, 1)>>),                         \* 14: [1]int8{}
       Box(SliceOf(tAny), <<Box(tInt8, ToWord(1, 1)), NilBox>>),          \* 15: []interface{}{int8(1), nil}
       Box(PtrTo(tHasChan), Addr(12)),                                    \* 16: &hasChan{1, ch}
       Box(PtrTo(MapOf(tInt, PtrTo(tAStruct))), Addr(13)),                \* 17: &byKey
       Box(MapOf(tAny, tAny),                                             \* 18: map[interface{}]interface{}
           (Box(tInt8, ToWord(1, 1)) :> Box(tWrap, <<Box(tString, sfoo)>>))), \*   {int8(1): wrap{"foo"}}
       Box(tHasSlice, <<Addr(8)>>),                                       \* 19: hasSlice{&p}
       Box(SliceOf(<<"Chan">>), <<>>),                                    \* 20: []chan int{}
       Box(SliceOf(tAny),                                                 \* 21: []interface{}{&value, &value.A}
           <<Box(PtrTo(tAStruct), Addr(1)), Box(PtrTo(tInt), Addr(1))>>),
       Box(PtrTo(SliceOf(tAny)), Addr(14)),                               \* 22: &q
       Box(PtrTo(tAStruct), 0),                                           \* 23: (*aStruct)(nil)
       Box(SliceOf(PtrTo(tAStruct)), <<Addr(1), 0>>),                     \* 24: []*aStruct{&value, nil}
       Box(MapOf(tInt, PtrTo(tAStruct)), (W8(3) :> 0)),                   \* 25: map[int]*aStruct{3: nil}
       Box(PtrTo(tHasPtr), Addr(15)) >>                                   \* 26: &last

\* The types a decoding program registers by hand.
Registrable == {tAStruct, tHasPtr}

\* Longest pointer cycle that is followed to its end.
MaxCycle == 4

\* Number of pointers followed when two values are compared.
MaxDepth == 3

\* The orders tried for each range over a Go map.
MaxOrd == 2
Orders == 0..(MaxOrd - 1)

(***************************************************************************)
(* State.                                                                  *)
(*   enc      the Encoder: buf, nextId, typeIds, ptrMap, objects           *)
(*   typeMap  the package's registry of the running program                *)
(*   writer   the bytes the sink has received                              *)
(*   wlog     the Write calls made: the root, the order of its ranges, the *)
(*            length of buf when it began and whether the call returned    *)
(*   phase    "encoding", "finished", "decoding"; "unfinished" when Finish *)
(*            panicked and the host went on, "nodecoder" when NewDecoder   *)
(*            returned an error, "crashed" when a panic ended the program  *)
(*   recovers whether the host program recovers from panics                *)
(*   dec      the Decoder (and the storage it allocated)                   *)
(*   newErr   whether NewDecoder returned an error                         *)
(*   results  what the calls of Read returned, in order                    *)
(*   codec    the integer codec applied on its own (see IntWrite, IntRead) *)
(*   walk     the pointers a call in progress has still to visit, when the *)
(*            calls are taken pointer by pointer (see SpecWalk)            *)
(***************************************************************************)
VARIABLES enc, typeMap, writer, wlog, phase, recovers, dec, newErr, results, codec, walk
vars == <<enc, typeMap, writer, wlog, phase, recovers, dec, newErr, results, codec, walk>>

\* NewEncoder
NewEncoder == [buf |-> <<>>, nextId |-> 1, typeIds |-> EmptyMap, ptrMap |-> EmptyMap, objects |-> 0]

\* The Decoder as NewDecoder makes it, reading stream s
FreshDecoder(s) ==
    [s |-> s, pos |-> 1, objects |-> 0, typeMap |-> EmptyMap, ptrMap |-> EmptyMap,
     postHeader |-> FALSE, mem |-> EmptyMap, ok |-> TRUE]

\* The integer codec at rest
CodecIdle == [pc |-> "idle", dir |-> "none", nb |-> 0, v |-> <<>>, bytes |-> <<>>, back |-> <<>>]

Session(r) ==
    /\ enc = NewEncoder
    /\ typeMap = EmptyMap
    /\ writer = <<>>
    /\ wlog = <<>>
    /\ phase = "encoding"
    /\ recovers = r
    /\ dec = FreshDecoder(<<>>)
    /\ newErr = FALSE
    /\ results = <<>>
    /\ walk = <<>>

InitWith(r) == Session(r) /\ codec = CodecIdle

\* A host program that recovers from the panics of the package, or not.
Init == \E r \in BOOLEAN : InitWith(r)
\* A host program that does not: a panic ends it.
InitClean == InitWith(FALSE)

\* The encoder at the start of a call whose ranges run in order o
Call(o) ==
    [buf |-> enc.buf, nextId |-> enc.nextId, typeIds |-> enc.typeIds, ptrMap |-> enc.ptrMap,
     objects |-> enc.objects, reg |-> typeMap, ord |-> o, ok |-> TRUE]
\* The Encoder a call leaves behind
Left(e) ==
    [buf |-> e.buf, nextId |-> e.nextId, typeIds |-> e.typeIds, ptrMap |-> e.ptrMap,
     objects |-> e.objects]
After(ok) == IF ok \/ recovers THEN phase ELSE "crashed"

\* The walk of v, of static type t, ranges over a map of more than one key:
\* only then can two runs of the walk differ in the order of a range.
RECURSIVE Ranged(_, _, _)
Ranged(t, v, seen) ==
    CASE Kind(t) = "Map" ->
            \/ Cardinality(DOMAIN v) > 1
            \/ \E k \in DOMAIN v : Ranged(t[2], k, seen) \/ Ranged(t[3], v[k], seen)
      [] Kind(t) = "Slice" -> \E i \in 1..Len(v) : Ranged(t[2], v[i], seen)
      [] Kind(t) = "Struct" ->
            \E i \in 1..Len(Fields(t)) :
                ~privateField(Fields(t)[i]) /\ Ranged(Fields(t)[i].type, v[i], seen)
      [] Kind(t) = "Interface" -> v.t # NilType /\ Ranged(v.t, v.v, seen)
      [] Kind(t) = "Ptr" ->
            v \in DOMAIN Heap /\ v \notin seen /\ Ranged(Heap[v].t, Heap[v].v, seen \cup {v})
      [] OTHER -> FALSE

Write(i, o) ==
    /\ phase = "encoding"
    /\ Len(wlog) < MaxWrites
    /\ o = 0 \/ Ranged(Roots[i].t, Roots[i].v, {})
    /\ \E e \in {EncoderWrite(Call(o), Roots[i])} :
           /\ enc' = Left(e)
           /\ typeMap' = e.reg
           /\ wlog' = Append(wlog, [root |-> i, ord |-> o, at |-> Len(enc.buf), ok |-> e.ok])
           /\ phase' = After(e.ok)
    /\ UNCHANGED <<walk, codec, writer, recovers, dec, newErr, results>>

Finish(oT, oP) ==
    /\ phase = "encoding"
    /\ \E e \in {FinishHeader(Call(oP), oT, oP)} :
           /\ typeMap' = e.reg
           /\ IF e.ok
              THEN /\ writer' = writer \o e.buf \o enc.buf
                   /\ enc' = [Left(e) EXCEPT !.buf = <<>>]
                   /\ phase' = "finished"
              ELSE /\ writer' = writer
                   /\ enc' = Left(e)
                   /\ phase' = IF recovers THEN "unfinished" ELSE "crashed"
    /\ UNCHANGED <<walk, codec, wlog, recovers, dec, newErr, results>>

\* The stream is handed to a program that has registered nothing yet.
Restart ==
    /\ phase = "finished"
    /\ typeMap # EmptyMap
    /\ typeMap' = EmptyMap
    /\ UNCHANGED <<walk, codec, enc, writer, wlog, phase, recovers, dec, newErr, results>>

Register(t) ==
    /\ phase = "finished"
    /\ TypeString(t) \notin DOMAIN typeMap
    /\ typeMap' = RegisterType(typeMap, t)
    /\ UNCHANGED <<walk, codec, enc, writer, wlog, phase, recovers, dec, newErr, results>>

\* A NewDecoder that returns the Decoder whatever readHeader returned.
NewDecoderAnyway ==
    /\ phase = "finished"
    /\ \E h \in {readHeader(FreshDecoder(writer), typeMap)} :
           /\ dec' = [h.d EXCEPT !.postHeader = TRUE, !.ok = TRUE]
           /\ newErr' = FALSE
           /\ phase' = "decoding"
    /\ UNCHANGED <<walk, codec, enc, typeMap, writer, wlog, recovers, results>>

NewDecoder ==
    /\ phase = "finished"
    /\ \E h \in {readHeader(FreshDecoder(writer), typeMap)} :
           /\ dec' = [h.d EXCEPT !.postHeader = h.d.ok /\ ~h.err, !.ok = TRUE]
           /\ newErr' = h.err
           /\ phase' = IF h.err THEN "nodecoder"
                       ELSE IF h.d.ok THEN "decoding"
                       ELSE "crashed"
    /\ UNCHANGED <<walk, codec, enc, typeMap, writer, wlog, recovers, results>>

Read ==
    /\ phase = "decoding"
    /\ Len(results) < MaxWrites + MaxExtraReads
    /\ \E r \in {DecoderRead(dec)} :
           /\ dec' = [r.d EXCEPT !.ok = TRUE]
           /\ results' = Append(results, [kind |-> r.kind, x |-> r.x])
           /\ phase' = After(r.kind # "panic")
    /\ UNCHANGED <<walk, codec, enc, typeMap, writer, wlog, recovers, newErr>>

Next ==
    \/ \E i \in 1..Len(Roots), o \in Orders : Write(i, o)
    \/ \E oT \in Orders, oP \in Orders : Finish(oT, oP)
    \/ Restart
    \/ \E t \in Registrable : Register(t)
    \/ NewDecoder
    \/ Read

Spec == Init /\ [][Next]_vars
SpecClean == InitClean /\ [][Next]_vars

(***************************************************************************)
(* A stream that is damaged between the two programs: the origin key of    *)
(* one pool entry is overwritten with a key that no pointer of the stream  *)
(* carries, so that every pointer to that entry is left without one.       *)
(***************************************************************************)
\* The registry of a program that has registered the types ids names
RegistryOf(ids) ==
    FnOver([n \in {TypeString(t) : t \in DOMAIN ids} |-> CHOOSE t \in DOMAIN ids : TypeString(t) = n],
           {TypeString(t) : t \in DOMAIN ids})
\* A reader of stream s after the object count and the type table, for a
\* program that has registered the types ids names
AfterTable(s, ids) ==
    LET Table(n) == headerTypes(n.d, RegistryOf(ids), LoopCount(n.v)).d
        Count(objects) == Table(readInt(objects.d))
    IN  Count(readInt(FreshDecoder(s)))
\* n pool entries read one after the other: for each its origin key, the
\* place of the key in the stream, the place after the entry, and the value
\* as it is before the patch pass
RECURSIVE poolEntries(_, _)
poolEntries(d, n) ==
    IF n <= 0 \/ ~d.ok THEN <<>>
    ELSE LET Entry(ptr, t, x) ==
                IF x.d.ok
                THEN <<[key |-> WordNat(ptr.v), at |-> d.pos, to |-> x.d.pos,
                        x |-> Box(t.v, Slot(t.v, x.v))]>>
                        \o poolEntries(x.d, n - 1)
                ELSE <<>>
             Value(ptr, t) == Entry(ptr, t, read(t.d, t.v))
             Type(ptr) == Value(ptr, readType(ptr.d))
         IN  Type(readUintptr(d))
\* The types of ids by their ids
TypesById(ids) ==
    FnOver([i \in {ids[t] : t \in DOMAIN ids} |-> CHOOSE t \in DOMAIN ids : ids[t] = i],
           {ids[t] : t \in DOMAIN ids})
\* The pool of stream s: the count written, the place after it, and the
\* entries, their type tags read with the ids the encoder has given
PoolOf(s, ids) ==
    LET Entries(m) == [count |-> WordInt(m.v), from |-> m.d.pos,
                       entries |-> poolEntries(m.d, WordInt(m.v))]
    IN  Entries(readInt([AfterTable(s, ids) EXCEPT !.typeMap = TypesById(ids)]))
\* The origin keys of a pool, in the order of the stream
PoolKeys(pool) == Tup([i \in 1..Len(pool.entries) |-> pool.entries[i].key], 1, Len(pool.entries))

\* an origin key that no object of the encoding program has
StrayKey == Addr(0)

Damage ==
    /\ phase = "finished"
    /\ \E es \in {PoolOf(writer, enc.typeIds).entries} :
           /\ \A i \in 1..Len(es) : es[i].key \in DOMAIN Heap
           /\ \E k \in 1..Len(es) :
                  writer' = SubSeq(writer, 1, es[k].at - 1)
                                \o bytesUintptr(ToWord(StrayKey, 8))
                                \o SubSeq(writer, es[k].at + 8, Len(writer))
    /\ UNCHANGED <<walk, codec, enc, typeMap, wlog, phase, recovers, dec, newErr, results>>

NextDamaged ==
    \/ \E i \in 1..Len(Roots), o \in Orders : Write(i, o)
    \/ \E oT \in Orders, oP \in Orders : Finish(oT, oP)
    \/ Damage
    \/ NewDecoder
    \/ Read

SpecDamaged == InitClean /\ [][NextDamaged]_vars

(***************************************************************************)
(* The signed integer codec on its own: writeIntW applied to a value and   *)
(* readIntW to the bytes (dir "enc"), or readIntW applied to bytes and     *)
(* writeIntW to the value (dir "dec").  Widths of 8 and 16 bits are taken  *)
(* whole; of 32 and 64 bits, the values around 0, the minimum and the      *)
(* maximum, and two of mixed digits.                                       *)
(***************************************************************************)
Widths == {1, 2, 4, 8}
Half(nb) == IF nb = 1 THEN 128 ELSE 32768
\* min + k
MinPlus(nb, k) == [ToWord(k, nb) EXCEPT ![nb] = @ + 128]
Mixed(nb) == Tup([i \in 1..nb |-> 17 * i], 1, nb)
IntSamples(nb) ==
    {ToWord(k, nb) : k \in (-SampleSpan)..SampleSpan}
        \cup {MinPlus(nb, k) : k \in 0..SampleSpan}
        \cup {Not(MinPlus(nb, k)) : k \in 0..SampleSpan}
        \cup {Mixed(nb), Not(Mixed(nb))}
IntValues(nb) ==
    IF nb <= 2 THEN {ToWord(n, nb) : n \in (-Half(nb))..(Half(nb) - 1)} ELSE IntSamples(nb)
\* byte strings: as many as values, and the same patterns
ByteStrings(nb) == IntValues(nb)

InitInt ==
    /\ Session(FALSE)
    /\ \E nb \in Widths :
          \/ \E v \in IntValues(nb) :
                codec = [pc |-> "start", dir |-> "enc", nb |-> nb, v |-> v, bytes |-> <<>>, back |-> <<>>]
          \/ \E b \in ByteStrings(nb) :
                codec = [pc |-> "start", dir |-> "dec", nb |-> nb, v |-> <<>>, bytes |-> b, back |-> <<>>]

\* writeIntW on a fresh buffer
IntWrite ==
    /\ <<codec.pc, codec.dir>> \in {<<"start", "enc">>, <<"mid", "dec">>}
    /\ codec' = IF codec.dir = "enc"
                THEN [codec EXCEPT !.bytes = bytesIntW(codec.v), !.pc = "mid"]
                ELSE [codec EXCEPT !.back = bytesIntW(codec.v), !.pc = "end"]
    /\ UNCHANGED <<walk, enc, typeMap, writer, wlog, phase, recovers, dec, newErr, results>>

\* readIntW on a reader of the bytes
IntRead ==
    /\ <<codec.pc, codec.dir>> \in {<<"start", "dec">>, <<"mid", "enc">>}
    /\ codec' = IF codec.dir = "dec"
                THEN [codec EXCEPT !.v = wordIntW(codec.bytes, codec.nb), !.pc = "mid"]
                ELSE [codec EXCEPT !.back = wordIntW(codec.bytes, codec.nb), !.pc = "end"]
    /\ UNCHANGED <<walk, enc, typeMap, writer, wlog, phase, recovers, dec, newErr, results>>

NextInt == IntWrite \/ IntRead

SpecInt == InitInt /\ [][NextInt]_vars

\* The bytes the format prescribes for a signed value, computed without the
\* codec: the little-endian digits of 2v for v >= 0 and of -2v - 1 for v < 0.
\* Near the minimum and the maximum the number is given modulo 2^w.
NearZero(v) == IsSmallInt(v) /\ (IsNeg(v) \/ IsSmall(Shl1(v)))
NearMin(v) == IsNeg(v) /\ IsSmall([v EXCEPT ![Len(v)] = @ - 128]) /\ Len(v) > 3
NearMax(v) == ~IsNeg(v) /\ NearMin(Not(v))
FoldedBytes(v) ==
    CASE NearZero(v) -> ToWord(IF WordInt(v) >= 0 THEN 2 * WordInt(v) ELSE (-2 * WordInt(v)) - 1, Len(v))
      [] NearMin(v) -> ToWord(-1 - 2 * WordNat([v EXCEPT ![Len(v)] = @ - 128]), Len(v))
      [] NearMax(v) -> ToWord(-2 - 2 * WordNat([Not(v) EXCEPT ![Len(v)] = @ - 128]), Len(v))

\* C7: for each width of 8, 16, 32 and 64 bits, readIntW applied to the bytes
\* of writeIntW(v) returns v, for every signed value v including 0, -1, the
\* minimum and the maximum; the bytes are the little-endian digits of the
\* sign-folded value, w/8 of them; and writeIntW applied to what readIntW
\* returns for any bytes gives those bytes, so the encoding is onto the
\* unsigned values of the width.
C7_IntRoundTrip ==
    /\ (codec.pc = "end" /\ codec.dir = "enc") =>
            /\ codec.back = codec.v
            /\ Len(codec.bytes) = codec.nb
            /\ (NearZero(codec.v) \/ NearMin(codec.v) \/ NearMax(codec.v)) =>
                    codec.bytes = FoldedBytes(codec.v)
    /\ (codec.pc = "end" /\ codec.dir = "dec") =>
            /\ codec.back = codec.bytes
            /\ Len(codec.v) = codec.nb

\* int64(-1) is written as 0x01 and seven zero bytes, and read back
C7_Witness ==
    /\ codec.pc = "end" /\ codec.dir = "enc" /\ codec.nb = 8
    /\ codec.v = ToWord(-1, 8)
    /\ codec.bytes = <<1, 0, 0, 0, 0, 0, 0, 0>>
    /\ codec.back = codec.v

(***************************************************************************)
(* What a session wrote and what it read back.                             *)
(***************************************************************************)
Min(a, b) == IF a < b THEN a ELSE b
IsOk(w) == w.ok
IsValue(r) == r.kind = "value"
\* the Write calls that returned, and the Read calls that returned a value
OkWrites == SelectSeq(wlog, IsOk)
OkReads == SelectSeq(results, IsValue)
\* every Write of the session returned
AllWritten == \A k \in 1..Len(wlog) : wlog[k].ok
\* the k-th Read was the Read of the k-th root: every Read before it
\* returned a value, and so left the reader at the start of the next root
ReadInTurn(k) == k <= Len(wlog) /\ \A j \in 1..(k - 1) : results[j].kind = "value"

\* The pointers held in a value of static type t (those of a struct's
\* exported fields, which are the ones that travel).
RECURSIVE Ptrs(_, _)
Ptrs(t, v) ==
    CASE Kind(t) = "Ptr" -> {v}
      [] Kind(t) = "Slice" -> UNION {Ptrs(t[2], v[i]) : i \in 1..Len(v)}
      [] Kind(t) = "Map" -> UNION {Ptrs(t[2], k) \cup Ptrs(t[3], v[k]) : k \in DOMAIN v}
      [] Kind(t) = "Struct" ->
            UNION {IF privateField(Fields(t)[i]) THEN {} ELSE Ptrs(Fields(t)[i].type, v[i]) :
                     i \in 1..Len(Fields(t))}
      [] Kind(t) = "Interface" -> IF v.t = NilType THEN {} ELSE Ptrs(v.t, v.v)
      [] OTHER -> {}

\* The pairs <<pointer written, pointer read>> at the same place of a value v
\* that was written and of the value w that was read for it.
RECURSIVE PtrPairs(_, _, _)
PtrPairs(t, v, w) ==
    CASE Kind(t) = "Ptr" -> {<<v, w>>}
      [] Kind(t) = "Slice" -> UNION {PtrPairs(t[2], v[i], w[i]) : i \in 1..Min(Len(v), Len(w))}
      [] Kind(t) = "Map" -> UNION {PtrPairs(t[3], v[k], w[k]) : k \in (DOMAIN v) \cap (DOMAIN w)}
      [] Kind(t) = "Struct" ->
            UNION {IF privateField(Fields(t)[i]) THEN {}
                   ELSE PtrPairs(Fields(t)[i].type, v[i], w[i]) : i \in 1..Len(Fields(t))}
      [] Kind(t) = "Interface" ->
            IF v.t = NilType \/ v.t # w.t THEN {} ELSE PtrPairs(v.t, v.v, w.v)
      [] OTHER -> {}

\* The k-th root written and the k-th value read, place by place
RootPairs(k) ==
    IF results[k].kind = "value" /\ results[k].x.t = Roots[wlog[k].root].t
    THEN PtrPairs(results[k].x.t, Roots[wlog[k].root].v, results[k].x.v)
    ELSE {}
\* The target of origin key o and the slot decoded for it, place by place
PoolPairs(o) ==
    IF o \in DOMAIN Heap /\ dec.mem[dec.ptrMap[o]].t = Heap[o].t
    THEN PtrPairs(Heap[o].t, Heap[o].v, dec.mem[dec.ptrMap[o]].v)
    ELSE {}
AllPairs ==
    UNION {RootPairs(k) : k \in 1..Min(Len(results), Len(wlog))}
        \cup UNION {PoolPairs(o) : o \in DOMAIN dec.ptrMap}

\* The pointers the decoding program holds: in the values read and in the slots
DecodedPtrs ==
    UNION {IF results[k].kind = "value" THEN Ptrs(results[k].x.t, results[k].x.v) ELSE {} :
             k \in 1..Len(results)}
        \cup UNION {Ptrs(dec.mem[a].t, dec.mem[a].v) : a \in DOMAIN dec.mem}

\* C1: in a session whose Writes all returned, two pointers that were written
\* with the same target (in one root, in two roots or inside pool entries)
\* are read as one and the same pointer, and two with different targets as
\* different pointers.
C1_PointerIdentity ==
    (phase = "decoding" /\ AllWritten) =>
        \A p \in AllPairs, q \in AllPairs : (p[1] = q[1]) <=> (p[2] = q[2])

\* C3: after NewDecoder has returned a Decoder, every pointer in a value
\* returned by Read and every pointer inside a pool slot is nil or refers to
\* a slot the decoder allocated; none is an address of the encoding program.
C3_PointerMovement ==
    (phase = "decoding" /\ AllWritten) =>
        \A a \in DecodedPtrs : a = 0 \/ (a \in DOMAIN dec.mem /\ a \notin DOMAIN Heap)

\* What a pointer of the decoding program refers to: a slot, or, for a
\* pointer that was not moved, the object of the encoding program.
HasTarget(w) == w \in (DOMAIN dec.mem) \cup (DOMAIN Heap)
Target(w) == IF w \in DOMAIN dec.mem THEN dec.mem[w] ELSE Heap[w]

\* w is the decoding of v, a value of static type t: equal scalars, the same
\* entries, exported fields alike and unexported fields zero, pointers to
\* targets that are alike (followed n times).
RECURSIVE DeepSame(_, _, _, _)
DeepSame(t, v, w, n) ==
    CASE Kind(t) = "Ptr" ->
            IF v = 0 \/ w = 0 THEN v = w
            ELSE /\ HasTarget(w)
                 /\ Target(w).t = Heap[v].t
                 /\ n = 0 \/ DeepSame(Heap[v].t, Heap[v].v, Target(w).v, n - 1)
      [] Kind(t) = "Slice" ->
            Len(v) = Len(w) /\ \A i \in 1..Len(v) : DeepSame(t[2], v[i], w[i], n)
      [] Kind(t) = "Map" ->
            DOMAIN v = DOMAIN w /\ \A k \in DOMAIN v : DeepSame(t[3], v[k], w[k], n)
      [] Kind(t) = "Struct" ->
            \A i \in 1..Len(Fields(t)) :
                IF Fields(t)[i].private THEN w[i] = Zero(Fields(t)[i].type)
                ELSE DeepSame(Fields(t)[i].type, v[i], w[i], n)
      [] Kind(t) = "Interface" ->
            v.t = w.t /\ (v.t = NilType \/ DeepSame(v.t, v.v, w.v, n))
      [] OTHER -> v = w
\* the value y read is the decoding of the root x
Decodes(x, y) == y.t = x.t /\ DeepSame(x.t, x.v, y.v, MaxDepth)

\* The records that point to the next record through their first field
Linked == {tHasPtr, tCyclic}
\* The number of steps after which following the pointers of memory m from
\* address a is back at a; 0 when it leaves m, or is not back in MaxCycle steps.
RECURSIVE Steps(_, _, _, _)
Steps(m, a, b, n) ==
    IF n > MaxCycle \/ b \notin DOMAIN m THEN 0
    ELSE IF m[b].t \notin Linked THEN 0
    ELSE IF m[b].v[1] = a THEN n
    ELSE Steps(m, a, m[b].v[1], n + 1)
CycleLen(m, a) == Steps(m, a, a, 1)

\* C2: the slice [&A, &B] with A.Ptr = &B and B.Ptr = &A is read as a slice s
\* with s[0].Ptr = s[1] and s[1].Ptr = s[0]; and a pointer into a cycle of
\* any length is read as a pointer into a cycle of the same length, all of
\* it in the decoder's slots.
C2_CycleRoundTrip ==
    (phase = "decoding" /\ AllWritten) =>
        \A k \in 1..Len(results) :
            /\ \A p \in RootPairs(k) :
                  (p[1] \in DOMAIN Heap /\ Heap[p[1]].t \in Linked) =>
                      /\ CycleLen(Heap, p[1]) > 0
                      /\ CycleLen(dec.mem, p[2]) = CycleLen(Heap, p[1])
            /\ (results[k].kind = "value" /\ wlog[k].root = 7) =>
                  LET s == results[k].x.v
                  IN  /\ Len(s) = 2 /\ s[1] # s[2]
                      /\ dec.mem[s[1]].v[1] = s[2]
                      /\ dec.mem[s[2]].v[1] = s[1]

\* [&A, &B] was written after a cycle of three and both were read back
C2_Witness ==
    /\ phase = "decoding" /\ Len(results) = 2 /\ Len(wlog) = 2 /\ AllWritten
    /\ wlog[1].root = 9 /\ wlog[2].root = 7
    /\ results[1].kind = "value" /\ results[2].kind = "value"
    /\ CycleLen(dec.mem, results[1].x.v) = 3
    /\ dec.mem[results[2].x.v[1]].v[1] = results[2].x.v[2]

\* C4: if n calls of Write returned before Finish, the first n calls of Read
\* return a value and the call after them returns the end-of-stream error;
\* no earlier call returns that error and no later call returns a value.
C4_RootCount ==
    \A k \in 1..Len(results) :
        IF k <= Len(OkWrites) THEN results[k].kind = "value" ELSE results[k].kind = "err"

\* C5: the k-th Read that returns a value returns the decoding of the value
\* passed to the k-th Write that returned.
C5_Fifo ==
    \A k \in 1..Min(Len(OkReads), Len(OkWrites)) :
        Decodes(Roots[OkWrites[k].root], OkReads[k].x)

\* C10: when a Write has panicked on an unsupported kind, a following Finish
\* emits a stream, and on that stream the k-th Read returns the decoding of
\* the k-th root whose Write returned, whether that Write came before or
\* after the one that panicked.
C10_FailedWriteIsolation ==
    (~AllWritten) =>
        /\ phase # "unfinished"
        /\ \A k \in 1..Min(Len(results), Len(OkWrites)) :
              results[k].kind = "value" /\ Decodes(Roots[OkWrites[k].root], results[k].x)

\* The names in the type table of stream s
RECURSIVE tableNames(_, _)
tableNames(d, n) ==
    IF n <= 0 THEN {}
    ELSE LET name == readString(d) IN {name.v} \cup tableNames(readUint(name.d).d, n - 1)
TableNames(s) ==
    LET n == readInt(readInt(FreshDecoder(s)).d) IN tableNames(n.d, WordInt(n.v))
\* NewDecoder has been called
HeaderRan == dec.pos > 1

\* C6: when the type table of the stream holds a name that the registry of
\* the decoding program does not, NewDecoder returns an error and no
\* Decoder; it has decoded no pool entry by then, and no Read takes place.
C6_MissingRegistration ==
    (HeaderRan /\ ~(TableNames(writer) \subseteq DOMAIN typeMap)) =>
        /\ phase = "nodecoder" /\ newErr
        /\ DOMAIN dec.mem = {} /\ DOMAIN dec.ptrMap = {}
        /\ results = <<>>
        /\ ~ENABLED Read

\* a stream with roots and pool entries, opened by a program that has not
\* registered its types
C6_Witness ==
    /\ phase = "nodecoder" /\ newErr
    /\ enc.objects > 0 /\ DOMAIN enc.ptrMap # {}
    /\ ~(TableNames(writer) \subseteq DOMAIN typeMap)

\* The exported fields of a struct type, in declaration order
RECURSIVE exported(_, _)
exported(fs, i) ==
    IF i > Len(fs) THEN <<>>
    ELSE (IF fs[i].private THEN <<>> ELSE <<fs[i]>>) \o exported(fs, i + 1)
Exported(t) == exported(Fields(t), 1)

\* The bytes of the k-th Write of a session whose Writes all returned
Segment(k) ==
    SubSeq(enc.buf, wlog[k].at + 1, IF k < Len(wlog) THEN wlog[k + 1].at ELSE Len(enc.buf))

\* Reading (name, value) pairs for the fields fs from i on: the position
\* after them, 0 when a name is not the one expected
RECURSIVE pairsEnd(_, _, _)
pairsEnd(d, fs, i) ==
    IF i > Len(fs) THEN (IF d.ok THEN d.pos ELSE 0)
    ELSE LET name == readString(d)
         IN  IF ~name.d.ok \/ name.v # fs[i].name THEN 0
             ELSE pairsEnd(read(name.d, fs[i].type).d, fs, i + 1)

\* seg is the type tag of struct type t, the number of its exported fields
\* and one pair for each of them, and nothing else
StructWire(seg, t) ==
    LET tag == readType([FreshDecoder(seg) EXCEPT !.typeMap = (enc.typeIds[t] :> t)])
        count == readInt(tag.d)
    IN  /\ tag.d.ok /\ tag.v = t
        /\ count.v = ToWord(Len(Exported(t)), 8)
        /\ pairsEnd(count.d, Exported(t), 1) = Len(seg) + 1

\* C8: for a struct the encoder writes the number of exported fields and then
\* that many (name, value) pairs, one per exported field; once decoded, as a
\* root or as a pool slot, every exported field is the decoding of the
\* original and every unexported field is the zero value of its type.
C8_FieldSubset ==
    /\ (phase = "encoding" /\ AllWritten) =>
            \A k \in 1..Len(wlog) :
                Kind(Roots[wlog[k].root].t) = "Struct" => StructWire(Segment(k), Roots[wlog[k].root].t)
    /\ (phase = "decoding" /\ AllWritten) =>
            /\ \A k \in 1..Len(results) :
                  (ReadInTurn(k) /\ Kind(Roots[wlog[k].root].t) = "Struct") =>
                      results[k].kind = "value" /\ Decodes(Roots[wlog[k].root], results[k].x)
            /\ \A o \in DOMAIN dec.ptrMap :
                  Kind(Heap[o].t) = "Struct" => Decodes(Heap[o], dec.mem[dec.ptrMap[o]])

\* payload{"foo", 3} was read back as payload{"foo", 0}, and a Cyclic, whose
\* unexported payload is not zero, was decoded into a slot
C8_Witness ==
    /\ phase = "decoding" /\ Len(results) = 2 /\ Len(wlog) = 2 /\ AllWritten
    /\ wlog[1].root = 13 /\ wlog[2].root = 3
    /\ results[2].kind = "value"
    /\ results[2].x.v = <<sfoo, ZeroWord(8)>>
    /\ Roots[3].v[2] # ZeroWord(8)
    /\ dec.mem[results[1].x.v].v[2] = Zero(tPayload)

\* C9: a map whose keys are scalars and whose values are scalars or maps is
\* read back with the same number of entries, each original key mapped to
\* the decoding of its original value, in whatever order the encoder ranged
\* over the entries.
C9_MapRoundTrip ==
    (phase = "decoding" /\ AllWritten) =>
        \A k \in 1..Len(results) :
            (ReadInTurn(k) /\ Kind(Roots[wlog[k].root].t) = "Map") =>
                /\ results[k].kind = "value"
                /\ results[k].x.t = Roots[wlog[k].root].t
                /\ Cardinality(DOMAIN results[k].x.v) = Cardinality(DOMAIN Roots[wlog[k].root].v)
                /\ Decodes(Roots[wlog[k].root], results[k].x)

\* both maps were ranged over in the other order and read back
C9_Witness ==
    /\ phase = "decoding" /\ Len(results) = 2 /\ Len(wlog) = 2 /\ AllWritten
    /\ wlog[1].root = 4 /\ wlog[1].ord = 1
    /\ wlog[2].root = 5 /\ wlog[2].ord = 1
    /\ results[1].kind = "value" /\ results[2].kind = "value"
    /\ results[1].x.v[W8(5)] = sbar
    /\ results[2].x.v[W8(-7)][sfoo] = f34

(***************************************************************************)
(* The pool: in the encoder, and as Finish wrote it to the sink.           *)
(***************************************************************************)
\* The targets reached from the set S of pointers by following pointers
RECURSIVE Reach(_)
Reach(S) ==
    LET N == S \cup UNION {Ptrs(Heap[a].t, Heap[a].v) : a \in S \cap DOMAIN Heap}
    IN  IF N = S THEN S ELSE Reach(N)
\* The targets reached from the roots passed to Write so far
Reached == Reach(UNION {Ptrs(Roots[wlog[k].root].t, Roots[wlog[k].root].v) : k \in 1..Len(wlog)})

\* The targets reached from the roots of the Writes that returned
ReachedOk ==
    Reach(UNION {IF wlog[k].ok THEN Ptrs(Roots[wlog[k].root].t, Roots[wlog[k].root].v) ELSE {} :
                   k \in 1..Len(wlog)}) \ {0}

\* C11: after any sequence of Write calls the pool of the encoder has exactly
\* one entry for each pointer target reached from the roots written (every
\* target of the roots whose Write returned, and no target that no root
\* reaches), its value being the target, however many pointers to it were
\* written; and the stream Finish emits has a pool count equal to the number
\* of entries and holds each entry once.
C11_PoolDedup ==
    /\ ReachedOk \subseteq DOMAIN enc.ptrMap
    /\ DOMAIN enc.ptrMap \subseteq Reached
    /\ \A a \in DOMAIN enc.ptrMap : enc.ptrMap[a] = Heap[a]
    /\ phase = "finished" =>
          \A keys \in {PoolKeys(PoolOf(writer, enc.typeIds))} :
              /\ PoolOf(writer, enc.typeIds).count = Cardinality(DOMAIN enc.ptrMap)
              /\ Len(keys) = Cardinality(DOMAIN enc.ptrMap)
              /\ {keys[i] : i \in 1..Len(keys)} = DOMAIN enc.ptrMap
              /\ \A i, j \in 1..Len(keys) : keys[i] = keys[j] => i = j

\* [&value, &value] and a cycle of three were written and the stream emitted:
\* four targets, four entries
C11_Witness ==
    /\ phase = "finished" /\ Len(wlog) = 2 /\ AllWritten
    /\ wlog[1].root = 6 /\ wlog[2].root = 9
    /\ Cardinality(DOMAIN enc.ptrMap) = 4
    /\ PoolOf(writer, enc.typeIds).count = 4

\* C12: NewDecoder patches no slot before every pool entry is decoded and
\* recorded, and no Read runs before the patch pass; so once NewDecoder has
\* returned, every pointer inside a pool slot, whether the entry it refers
\* to came earlier or later in the pool, is the slot recorded for its origin
\* key, in whatever order Finish ranged over the pool.
C12_TwoPhase ==
    /\ phase \in {"encoding", "finished", "unfinished", "nodecoder"} => results = <<>>
    /\ (phase = "decoding" /\ AllWritten) =>
          \A o \in DOMAIN dec.ptrMap : \A p \in PoolPairs(o) :
              p[1] \in DOMAIN dec.ptrMap /\ p[2] = dec.ptrMap[p[1]]

\* The pairs <<pointer written, pointer read>> at the same place of v and w,
\* for the places the patch pass visits: pointers, slice elements, map values
\* and exported struct fields.
RECURSIVE PatchedPairs(_, _, _)
PatchedPairs(t, v, w) ==
    CASE Kind(t) = "Ptr" -> {<<v, w>>}
      [] Kind(t) = "Slice" -> UNION {PatchedPairs(t[2], v[i], w[i]) : i \in 1..Min(Len(v), Len(w))}
      [] Kind(t) = "Map" -> UNION {PatchedPairs(t[3], v[k], w[k]) : k \in (DOMAIN v) \cap (DOMAIN w)}
      [] Kind(t) = "Struct" ->
            UNION {IF privateField(Fields(t)[i]) THEN {}
                   ELSE PatchedPairs(Fields(t)[i].type, v[i], w[i]) : i \in 1..Len(Fields(t))}
      [] OTHER -> {}

\* A pointer inside a pool entry of the stream whose origin key has no entry
DanglingInPool(pool) ==
    \E i \in 1..Len(pool.entries) :
        \E p \in Ptrs(pool.entries[i].x.t, pool.entries[i].x.v) :
            \A j \in 1..Len(pool.entries) : pool.entries[j].key # p
\* A pointer inside the k-th root written whose origin key has no entry
DanglingInRoot(pool, k) ==
    \E p \in Ptrs(Roots[wlog[k].root].t, Roots[wlog[k].root].v) :
        \A j \in 1..Len(pool.entries) : pool.entries[j].key # p

\* C14: when the stream holds a pointer whose origin key has no pool entry,
\* NewDecoder fails if the pointer is inside a pool entry, and the Read of a
\* root that holds such a pointer fails; no value is returned for that root.
C14_Dangling ==
    HeaderRan =>
        \A pool \in {PoolOf(writer, enc.typeIds)} :
            /\ DanglingInPool(pool) => phase # "decoding"
            /\ \A k \in 1..Min(Len(results), Len(wlog)) :
                   DanglingInRoot(pool, k) => results[k].kind = "panic"

\* v and w, of static type t, have the same dynamic type at every place
\* whose static type is an interface (pointers are not followed)
RECURSIVE SameDyn(_, _, _)
SameDyn(t, v, w) ==
    CASE Kind(t) = "Slice" -> Len(v) = Len(w) /\ \A i \in 1..Len(v) : SameDyn(t[2], v[i], w[i])
      [] Kind(t) = "Map" ->
            /\ \A k \in DOMAIN v : \E l \in DOMAIN w : SameDyn(t[2], k, l) /\ SameDyn(t[3], v[k], w[l])
            /\ \A l \in DOMAIN w : \E k \in DOMAIN v : SameDyn(t[2], k, l) /\ SameDyn(t[3], v[k], w[l])
      [] Kind(t) = "Struct" ->
            \A i \in 1..Len(Fields(t)) :
                privateField(Fields(t)[i]) \/ SameDyn(Fields(t)[i].type, v[i], w[i])
      [] Kind(t) = "Interface" -> v.t = w.t /\ (v.t = NilType \/ SameDyn(v.t, v.v, w.v))
      [] OTHER -> TRUE

\* C15: in a session whose Writes all returned and whose header was read,
\* every pool slot has the type of its target and every value read the type
\* of the root written, with the same dynamic type at each interface-typed
\* place (slice element, map key, map value, struct field); each Read
\* returns a value, and the Reads of all roots consume the stream to its end.
C15_TagSymmetry ==
    (phase = "decoding" /\ AllWritten) =>
        /\ \A o \in DOMAIN dec.ptrMap :
               /\ dec.mem[dec.ptrMap[o]].t = Heap[o].t
               /\ SameDyn(Heap[o].t, Heap[o].v, dec.mem[dec.ptrMap[o]].v)
        /\ \A k \in 1..Min(Len(results), Len(wlog)) :
               /\ results[k].kind = "value"
               /\ results[k].x.t = Roots[wlog[k].root].t
               /\ SameDyn(results[k].x.t, Roots[wlog[k].root].v, results[k].x.v)
        /\ Len(results) >= Len(wlog) => dec.pos = Len(writer) + 1

C15_Witness ==
    /\ phase = "decoding" /\ AllWritten /\ Len(wlog) = 2 /\ Len(results) = 2
    /\ wlog[1].root = 18 /\ wlog[2].root = 11
    /\ results[1].kind = "value" /\ results[2].kind = "value"
    /\ \E k \in DOMAIN results[1].x.v :
           /\ k.t = tInt8
           /\ results[1].x.v[k].t = tWrap
           /\ results[1].x.v[k].v[1] = Box(tString, sfoo)
    /\ dec.mem[results[2].x.v].v[1].t = PtrTo(tAStruct)
    /\ dec.pos = Len(writer) + 1

\* The Write calls of the session made again on a new Encoder, from the k-th
RECURSIVE Replay(_, _)
Replay(e, k) ==
    IF k > Len(wlog) THEN e
    ELSE Replay(EncoderWrite([e EXCEPT !.ord = wlog[k].ord, !.ok = TRUE], Roots[wlog[k].root]), k + 1)
\* The bytes Write has buffered by the time Finish is called
Buffered ==
    Replay([buf |-> <<>>, nextId |-> 1, typeIds |-> EmptyMap, ptrMap |-> EmptyMap, objects |-> 0,
            reg |-> EmptyMap, ord |-> 0, ok |-> TRUE], 1).buf
\* The place in the stream after the pool
PoolEnd(pool) == IF pool.entries = <<>> THEN pool.from ELSE pool.entries[Len(pool.entries)].to

\* C16: the stream Finish wrote reads, from its first byte, as the object
\* count, the count of the type table and a name and id for each type the
\* encoder has given an id, the count of the pool and an origin key, type tag
\* and value for each target of the encoder's pool, and from there to its
\* end the bytes the Write calls buffered, in the order of the calls.
C16_FinishOrder ==
    phase = "finished" =>
        /\ WordInt(readInt(FreshDecoder(writer)).v) = enc.objects
        /\ WordInt(readInt(readInt(FreshDecoder(writer)).d).v) = Cardinality(DOMAIN enc.typeIds)
        /\ \A table \in {AfterTable(writer, enc.typeIds).typeMap} :
               /\ DOMAIN table = {enc.typeIds[t] : t \in DOMAIN enc.typeIds}
               /\ \A t \in DOMAIN enc.typeIds : table[enc.typeIds[t]] = t
        /\ \A pool \in {PoolOf(writer, enc.typeIds)} :
               /\ pool.count = Cardinality(DOMAIN enc.ptrMap)
               /\ Len(pool.entries) = pool.count
               /\ \A i \in 1..Len(pool.entries) :
                      /\ pool.entries[i].key \in DOMAIN enc.ptrMap
                      /\ pool.entries[i].x.t = enc.ptrMap[pool.entries[i].key].t
               /\ SubSeq(writer, PoolEnd(pool), Len(writer)) = Buffered

\* The type descriptor of t holds a kind tag of an array, a channel or a
\* function: t is of such a kind, or is a pointer to, a slice of or a map of
\* a type whose descriptor holds one.
RECURSIVE Unsupported(_)
Unsupported(t) ==
    CASE Kind(t) \in {"Array", "Chan", "Func"} -> TRUE
      [] Kind(t) \in {"Ptr", "Slice"} -> Unsupported(t[2])
      [] Kind(t) = "Map" -> Unsupported(t[2]) \/ Unsupported(t[3])
      [] OTHER -> FALSE

\* C17: a Write of a root whose type descriptor holds the kind of an array,
\* a channel or a function does not return (so that no stream holds such a
\* tag), and a Read that meets such a root does not return a value.
C17_UnsupportedKinds ==
    /\ \A k \in 1..Len(wlog) : Unsupported(Roots[wlog[k].root].t) => ~wlog[k].ok
    /\ \A k \in 1..Min(Len(results), Len(wlog)) :
           (AllWritten /\ Unsupported(Roots[wlog[k].root].t)) => results[k].kind = "panic"

\* The ids of the encoder are 1..n for its n types, one each, and nextId is n+1
IdsDense ==
    /\ DOMAIN enc.typeIds \subseteq NamedTypes
    /\ {enc.typeIds[t] : t \in DOMAIN enc.typeIds} = 1..Cardinality(DOMAIN enc.typeIds)
    /\ \A t, u \in DOMAIN enc.typeIds : enc.typeIds[t] = enc.typeIds[u] => t = u
    /\ enc.nextId = Cardinality(DOMAIN enc.typeIds) + 1
\* A call keeps the id of every type that has one and gives the types it
\* registers the ids from nextId on
IdsKept ==
    /\ \A t \in DOMAIN enc.typeIds : t \in DOMAIN enc'.typeIds /\ enc'.typeIds[t] = enc.typeIds[t]
    /\ \A t \in DOMAIN enc'.typeIds : t \in DOMAIN enc.typeIds \/ enc'.typeIds[t] >= enc.nextId

\* C18: at all times the ids the encoder has assigned are exactly 1..n for
\* the n struct and interface types registered, no two types share an id and
\* nextId is n+1; every call keeps the ids assigned before it and numbers
\* the types it registers for the first time after them.
C18_TypeIds == [](IdsDense) /\ [][IdsKept]_vars

\* aStruct is registered by one Write and seen again by the next, which
\* registers hasSlice after it
C18_Witness ==
    /\ phase = "encoding" /\ Len(wlog) = 2 /\ AllWritten
    /\ wlog[1].root = 2 /\ wlog[2].root = 19
    /\ DOMAIN enc.typeIds = {tAStruct, tHasSlice}
    /\ enc.typeIds[tAStruct] = 1 /\ enc.typeIds[tHasSlice] = 2
    /\ enc.nextId = 3

\* An encoder with an empty buffer that has given the types of ids their ids
Blank(ids) ==
    [buf |-> <<>>, nextId |-> 1, typeIds |-> ids, ptrMap |-> EmptyMap, objects |-> 0,
     reg |-> EmptyMap, ord |-> 0, ok |-> TRUE]
\* The bytes of the type tag of t, of a count n and of an origin key
TagBytes(t, ids) == writeType(Blank(ids), t).buf
CountBytes(n) == writeInt(Blank(EmptyMap), ToWord(n, 8)).buf
KeyBytes(ptr) == bytesUintptr(ToWord(ptr, 8))
RECURSIVE KeysBytes(_, _)
KeysBytes(ptrs, i) == IF i > Len(ptrs) THEN <<>> ELSE KeyBytes(ptrs[i]) \o KeysBytes(ptrs, i + 1)
\* x is a pointer or a slice of pointers
OfPointers(x) == Kind(x.t) = "Ptr" \/ (Kind(x.t) = "Slice" /\ Kind(x.t[2]) = "Ptr")
\* What follows the tag when x is written if each pointer adds its origin key
\* and nothing more
KeysOf(x) == IF Kind(x.t) = "Ptr" THEN KeyBytes(x.v) ELSE CountBytes(Len(x.v)) \o KeysBytes(x.v, 1)
\* A Write of a pointer or of a slice of pointers, in a program that goes on:
\* the buffer of before is the buffer of after, with the tag and the keys
\* appended when the call returned, and with the tag otherwise
PtrFrame ==
    (phase = "encoding" /\ phase' = "encoding" /\ Len(wlog') = Len(wlog) + 1) =>
        \A w \in {wlog'[Len(wlog')]} :
            OfPointers(Roots[w.root]) =>
                /\ w.ok => enc'.buf = enc.buf \o TagBytes(Roots[w.root].t, enc'.typeIds)
                                             \o KeysOf(Roots[w.root])
                /\ Len(enc'.buf) >= Len(enc.buf) + Len(TagBytes(Roots[w.root].t, enc'.typeIds))
                /\ SubSeq(enc'.buf, 1, Len(enc.buf)) = enc.buf

\* C19: each pointer written adds the 8 bytes of its origin key to the buffer
\* that was current when the call began, the same on first and on repeated
\* sight, and nothing else; the walk of its target adds nothing to that
\* buffer, and that buffer is the encoder's current buffer afterwards.
C19_PointerFrame == [][PtrFrame]_vars

(***************************************************************************)
(* Write, Finish and the patch pass of NewDecoder taken one pointer at a   *)
(* time.  walk is the stack of the calls of write in progress: for each,   *)
(* the pointers of its value that are still to be written, in order.       *)
(***************************************************************************)
\* Deepest nesting of walks of pointer targets.
MaxStack == 6

RECURSIVE Flat(_)
Flat(ss) == IF ss = <<>> THEN <<>> ELSE Head(ss) \o Flat(Tail(ss))
\* The pointers met in a value v of static type t, in order: by write, which
\* goes into the value an interface holds (dyn), and by patch, which does not
RECURSIVE PtrSeq(_, _, _)
PtrSeq(t, v, dyn) ==
    CASE Kind(t) = "Ptr" -> <<v>>
      [] Kind(t) = "Slice" -> Flat([i \in 1..Len(v) |-> PtrSeq(t[2], v[i], dyn)])
      [] Kind(t) = "Map" ->
            Flat([i \in 1..Cardinality(DOMAIN v) |->
                    PtrSeq(t[2], SetToSeq(DOMAIN v)[i], dyn)
                        \o PtrSeq(t[3], v[SetToSeq(DOMAIN v)[i]], dyn)])
      [] Kind(t) = "Struct" ->
            Flat([i \in 1..Len(Fields(t)) |->
                    IF privateField(Fields(t)[i]) THEN <<>> ELSE PtrSeq(Fields(t)[i].type, v[i], dyn)])
      [] Kind(t) = "Interface" -> IF dyn /\ v.t # NilType THEN PtrSeq(v.t, v.v, dyn) ELSE <<>>
      [] OTHER -> <<>>

\* A store that walks the target without having entered it.
enterNot(pm, w, ptr) == pm
\* e.ptrMap[ptr] = w.Elem().Interface(), before the walk
enterFirst(pm, w, ptr) == Put(pm, ptr, ElemInterface(w))

\* The roots whose Write returns
Walkable == {i \in 1..Len(Roots) : EncoderWrite(Blank(EmptyMap), Roots[i]).ok}

\* Encoder.Write begins: write(value, true)
WalkWrite(i) ==
    /\ phase = "encoding" /\ walk = <<>>
    /\ Len(wlog) < MaxWrites
    /\ i \in Walkable
    /\ walk' = <<PtrSeq(Roots[i].t, Roots[i].v, TRUE)>>
    /\ wlog' = Append(wlog, [root |-> i, ord |-> 0, at |-> 0, ok |-> TRUE])
    /\ UNCHANGED <<enc, typeMap, writer, phase, recovers, dec, newErr, results, codec>>

\* writePtr: storePtr, which walks the target on first sight
writePtrStep ==
    /\ phase \in {"encoding", "finishing"}
    /\ walk # <<>> /\ Head(walk) # <<>>
    /\ \E ptr \in {Head(Head(walk))} :
           IF ptr \in DOMAIN enc.ptrMap
           THEN /\ walk' = <<Tail(Head(walk))>> \o Tail(walk)
                /\ enc' = enc
           ELSE /\ Len(walk) < MaxStack
                /\ enc' = [enc EXCEPT !.ptrMap = enterFirst(@, Box(PtrTo(Heap[ptr].t), ptr), ptr)]
                /\ walk' = <<PtrSeq(Heap[ptr].t, Heap[ptr].v, TRUE), Tail(Head(walk))>> \o Tail(walk)
    /\ UNCHANGED <<typeMap, writer, wlog, phase, recovers, dec, newErr, results, codec>>

\* a call of write, or the patch of a slot, returns; the last to return ends
\* Write, Finish or NewDecoder
WalkReturn ==
    /\ walk # <<>> /\ Head(walk) = <<>>
    /\ walk' = Tail(walk)
    /\ enc' = IF Tail(walk) = <<>> /\ phase = "encoding" THEN [enc EXCEPT !.objects = @ + 1] ELSE enc
    /\ phase' = CASE Tail(walk) = <<>> /\ phase = "finishing" -> "finished"
                   [] Tail(walk) = <<>> /\ phase = "patching" -> "decoding"
                   [] OTHER -> phase
    /\ UNCHANGED <<typeMap, writer, wlog, recovers, dec, newErr, results, codec>>

\* Encoder.Finish begins: write(v, true) for each entry of the pool
WalkFinish ==
    /\ phase = "encoding" /\ walk = <<>>
    /\ phase' = "finishing"
    /\ walk' = <<Flat([i \in 1..Cardinality(DOMAIN enc.ptrMap) |->
                         PtrSeq(enc.ptrMap[SetToSeq(DOMAIN enc.ptrMap)[i]].t,
                                enc.ptrMap[SetToSeq(DOMAIN enc.ptrMap)[i]].v, TRUE)])>>
    /\ UNCHANGED <<enc, typeMap, writer, wlog, recovers, dec, newErr, results, codec>>

\* NewDecoder has read the pool: patch(obj) for each slot
PatchBegin ==
    /\ phase = "finished" /\ walk = <<>>
    /\ phase' = "patching"
    /\ walk' = <<Flat([i \in 1..Cardinality(DOMAIN enc.ptrMap) |->
                         PtrSeq(enc.ptrMap[SetToSeq(DOMAIN enc.ptrMap)[i]].t,
                                enc.ptrMap[SetToSeq(DOMAIN enc.ptrMap)[i]].v, FALSE)])>>
    /\ UNCHANGED <<enc, typeMap, writer, wlog, recovers, dec, newErr, results, codec>>

\* patchPtr: the pointer is set, and its target is not visited
patchPtrStep ==
    /\ phase = "patching"
    /\ walk # <<>> /\ Head(walk) # <<>>
    /\ walk' = <<Tail(Head(walk))>> \o Tail(walk)
    /\ UNCHANGED <<enc, typeMap, writer, wlog, phase, recovers, dec, newErr, results, codec>>

\* a call in progress goes on
WalkStep == writePtrStep \/ WalkReturn \/ patchPtrStep

NextWalk ==
    \/ \E i \in 1..Len(Roots) : WalkWrite(i)
    \/ WalkFinish
    \/ PatchBegin
    \/ writePtrStep
    \/ WalkReturn
    \/ patchPtrStep

SpecWalk == InitClean /\ [][NextWalk]_vars /\ WF_vars(WalkStep)

\* C20: every call of Write, of Finish and of the patch pass of NewDecoder
\* that has begun returns, on graphs with cycles through pointers too
\* (foo.Ptr = foo among them); the walks never nest deeper than the number
\* of targets, and when Write returns the pool holds the targets reached.
C20_Termination ==
    /\ [](Len(walk) < MaxStack)
    /\ [](walk = <<>> => DOMAIN enc.ptrMap = Reached)
    /\ (walk # <<>>) ~> (walk = <<>>)

\* the self-reference and the cycle of three, written, finished and patched
C20_Witness ==
    /\ phase = "decoding" /\ walk = <<>>
    /\ Len(wlog) = 2 /\ wlog[1].root = 8 /\ wlog[2].root = 9
    /\ DOMAIN enc.ptrMap = {Addr(4), Addr(5), Addr(6), Addr(7)}
    /\ enc.objects = 2

\* C13: when NewDecoder reads a stream whose types are all registered, the
\* patch pass completes, NewDecoder returns a Decoder, and in every pool slot
\* holding a struct, a slice or a map every pointer (in an exported field, a
\* slice element or a map entry, at any depth) is the slot recorded for its
\* origin key.
C13_PatchCoverage ==
    (HeaderRan /\ AllWritten /\ ~newErr) =>
        /\ phase = "decoding"
        /\ \A o \in DOMAIN dec.ptrMap :
              /\ dec.mem[dec.ptrMap[o]].t = Heap[o].t
              /\ \A p \in PatchedPairs(Heap[o].t, Heap[o].v, dec.mem[dec.ptrMap[o]].v) :
                    p[1] \in DOMAIN dec.ptrMap /\ p[2] = dec.ptrMap[p[1]]

(***************************************************************************)
(* The ids in the type tags of a stream, and its type table.               *)
(***************************************************************************)
\* The struct and interface types named in the descriptor of t
RECURSIVE NamedIn(_)
NamedIn(t) ==
    CASE Kind(t) \in {"Ptr", "Slice"} -> NamedIn(t[2])
      [] Kind(t) = "Map" -> NamedIn(t[2]) \cup NamedIn(t[3])
      [] Kind(t) \in {"Struct", "Interface"} -> {t}
      [] OTHER -> {}
\* The types named in the tags written inside a value v of static type t:
\* those of the values its interfaces hold (targets of pointers apart)
RECURSIVE TagsIn(_, _)
TagsIn(t, v) ==
    CASE Kind(t) = "Slice" -> UNION {TagsIn(t[2], v[i]) : i \in 1..Len(v)}
      [] Kind(t) = "Map" -> UNION {TagsIn(t[2], k) \cup TagsIn(t[3], v[k]) : k \in DOMAIN v}
      [] Kind(t) = "Struct" ->
            UNION {IF privateField(Fields(t)[i]) THEN {} ELSE TagsIn(Fields(t)[i].type, v[i]) :
                     i \in 1..Len(Fields(t))}
      [] Kind(t) = "Interface" -> IF v.t = NilType THEN {} ELSE NamedIn(v.t) \cup TagsIn(v.t, v.v)
      [] OTHER -> {}
\* The types named in the tags of the body and of the pool
UsedTypes ==
    UNION {NamedIn(Roots[wlog[k].root].t) \cup TagsIn(Roots[wlog[k].root].t, Roots[wlog[k].root].v) :
             k \in 1..Len(wlog)}
        \cup UNION {NamedIn(enc.ptrMap[a].t) \cup TagsIn(enc.ptrMap[a].t, enc.ptrMap[a].v) :
                      a \in DOMAIN enc.ptrMap}

\* C21: in the stream Finish wrote, every type named in a type tag of the
\* body or of the pool has its id in the type table, under its own name, and
\* the count of the table is the number of the ids those tags use.
C21_TableClosure ==
    (phase = "finished" /\ AllWritten) =>
        \A table \in {AfterTable(writer, enc.typeIds).typeMap} :
            /\ \A t \in UsedTypes :
                   /\ t \in DOMAIN enc.typeIds
                   /\ enc.typeIds[t] \in DOMAIN table
                   /\ table[enc.typeIds[t]] = t
            /\ WordInt(readInt(readInt(FreshDecoder(writer)).d).v) = Cardinality(UsedTypes)

\* The pointers held in a value of static type t, each with its element type
RECURSIVE TypedPtrs(_, _)
TypedPtrs(t, v) ==
    CASE Kind(t) = "Ptr" -> {<<t[2], v>>}
      [] Kind(t) = "Slice" -> UNION {TypedPtrs(t[2], v[i]) : i \in 1..Len(v)}
      [] Kind(t) = "Map" -> UNION {TypedPtrs(t[2], k) \cup TypedPtrs(t[3], v[k]) : k \in DOMAIN v}
      [] Kind(t) = "Struct" ->
            UNION {IF privateField(Fields(t)[i]) THEN {} ELSE TypedPtrs(Fields(t)[i].type, v[i]) :
                     i \in 1..Len(Fields(t))}
      [] Kind(t) = "Interface" -> IF v.t = NilType THEN {} ELSE TypedPtrs(v.t, v.v)
      [] OTHER -> {}
\* The pointers written inline: those of the roots and of the pool entries
InlinePtrs ==
    UNION {TypedPtrs(Roots[wlog[k].root].t, Roots[wlog[k].root].v) : k \in 1..Len(wlog)}
        \cup UNION {TypedPtrs(enc.ptrMap[a].t, enc.ptrMap[a].v) : a \in DOMAIN enc.ptrMap}

\* C22: the pool entry that the origin key of a pointer selects has the
\* element type of that pointer, in the encoder and in the stream Finish
\* wrote; so two pointers of different element types never share an entry.
C22_KeyType ==
    /\ \A p \in InlinePtrs : p[2] \in DOMAIN enc.ptrMap => enc.ptrMap[p[2]].t = p[1]
    /\ (phase = "finished" /\ AllWritten) =>
          \A es \in {PoolOf(writer, enc.typeIds).entries} :
              \A p \in InlinePtrs : \A i \in 1..Len(es) : es[i].key = p[2] => es[i].x.t = p[1]

\* C23: after a Write that returned, every pointer held in the value of a
\* pool entry has its target in the pool; and in the stream Finish wrote the
\* pool has as many entries as its count says, those the encoder had when
\* the count was written, and every origin key written in the body or in
\* the pool is the key of one of them.
C23_PoolClosure ==
    /\ (Len(wlog) > 0 /\ wlog[Len(wlog)].ok) =>
          \A a \in DOMAIN enc.ptrMap :
              Ptrs(enc.ptrMap[a].t, enc.ptrMap[a].v) \ {0} \subseteq DOMAIN enc.ptrMap
    /\ phase = "finished" =>
          \A pool \in {PoolOf(writer, enc.typeIds)} :
              /\ Len(pool.entries) = pool.count
              /\ \A p \in InlinePtrs :
                     p[2] = 0 \/ \E i \in 1..Len(pool.entries) : pool.entries[i].key = p[2]

\* The value v, of static type t, holds a nil pointer where write goes: in
\* itself or in a target reached through its pointers
RECURSIVE HasNil(_, _, _)
HasNil(t, v, seen) ==
    CASE Kind(t) = "Ptr" ->
            \/ v = 0
            \/ v \in DOMAIN Heap /\ v \notin seen /\ HasNil(Heap[v].t, Heap[v].v, seen \cup {v})
      [] Kind(t) = "Slice" -> \E i \in 1..Len(v) : HasNil(t[2], v[i], seen)
      [] Kind(t) = "Map" -> \E k \in DOMAIN v : HasNil(t[2], k, seen) \/ HasNil(t[3], v[k], seen)
      [] Kind(t) = "Struct" ->
            \E i \in 1..Len(Fields(t)) :
                ~privateField(Fields(t)[i]) /\ HasNil(Fields(t)[i].type, v[i], seen)
      [] Kind(t) = "Interface" -> v.t # NilType /\ HasNil(v.t, v.v, seen)
      [] OTHER -> FALSE
\* The k-th Write was given a value that holds a nil pointer
NilWritten(k) == HasNil(Roots[wlog[k].root].t, Roots[wlog[k].root].v, {})

\* C24: a Write of a value that holds a nil pointer (the root itself, a
\* struct field, a slice element or a map entry) fails and does not count;
\* the pool never has an entry for the nil address, and no pool entry of a
\* stream has the nil address as its origin key.
C24_NilPointer ==
    /\ \A k \in 1..Len(wlog) : NilWritten(k) => ~wlog[k].ok
    /\ enc.objects = Cardinality({k \in 1..Len(wlog) : wlog[k].ok /\ ~NilWritten(k)})
    /\ 0 \notin DOMAIN enc.ptrMap
    /\ phase = "finished" =>
          \A es \in {PoolOf(writer, enc.typeIds).entries} : \A i \in 1..Len(es) : es[i].key # 0

TypeOK ==
    /\ phase \in {"encoding", "finishing", "finished", "unfinished", "patching", "decoding",
                 "nodecoder", "crashed"}
    /\ enc.objects <= Len(wlog)

====
